---------------------------- MODULE Spec2Model ----------------------------
(***************************************************************************)
(* A model of the thesis-format checker: the structure analysis and the    *)
(* restructurer (document_restructurer.py), the validator (validator.py)   *)
(* and the corrector (corrector.py).                                       *)
(*                                                                         *)
(* Text is a sequence of one-character strings, so that the regular        *)
(* expressions of the code are modelled by what they match.  Lengths are   *)
(* in hundredths of a centimetre, line spacings in tenths.  A paragraph    *)
(* index is the 0-based index of the code; paragraph i of a document is    *)
(* paras[i + 1].                                                           *)
(***************************************************************************)
EXTENDS Integers, Sequences, FiniteSets, TLC

VARIABLES files, call, arg, ret, written

vars == <<files, call, arg, ret, written>>

(***************************************************************************)
(* Text: Python's str operations and the regular expressions of the code.  *)
(***************************************************************************)
None == "None"

Digits == {"0", "1", "2", "3", "4", "5", "6", "7", "8", "9"}

UpperLetters == {"A", "B", "C", "I", "K", "M", "P", "T", "V", "X"}

RomanLetters == {"I", "V", "X"}

Space == {" "}

\* str.upper() on one character
UpperChar(c) ==
    CASE c = "a" -> "A"
      [] c = "b" -> "B"
      [] c = "i" -> "I"
      [] c = "k" -> "K"
      [] c = "p" -> "P"
      [] c = "t" -> "T"
      [] c = "x" -> "X"
      [] OTHER -> c

Upper(s) == [i \in 1..Len(s) |-> UpperChar(s[i])]

\* s[i:] of Python, i 0-based
Drop(s, i) == IF i >= Len(s) THEN <<>> ELSE SubSeq(s, i + 1, Len(s))

\* s[:i] of Python
Take(s, i) == IF i <= 0 THEN <<>> ELSE SubSeq(s, 1, IF i > Len(s) THEN Len(s) ELSE i)

\* the length of the longest prefix of s made of characters of set cs
RECURSIVE RunLen(_, _)
RunLen(s, cs) ==
    IF s = <<>> \/ Head(s) \notin cs THEN 0 ELSE 1 + RunLen(Tail(s), cs)

LStrip(s) == Drop(s, RunLen(s, Space))

RECURSIVE RStrip(_)
RStrip(s) ==
    IF s = <<>> \/ s[Len(s)] \notin Space THEN s ELSE RStrip(Take(s, Len(s) - 1))

\* str.strip()
Strip(s) == RStrip(LStrip(s))

\* str.startswith
StartsWith(s, p) == Len(s) >= Len(p) /\ Take(s, Len(p)) = p

\* sub in s
Contains(s, sub) == \E i \in 0..(Len(s) - Len(sub)) : StartsWith(Drop(s, i), sub)

\* str.replace(old, new): the non-overlapping occurrences, left to right
RECURSIVE Replace(_, _, _)
Replace(s, old, new) ==
    IF s = <<>> THEN <<>>
    ELSE IF StartsWith(s, old) THEN new \o Replace(Drop(s, Len(old)), old, new)
    ELSE <<Head(s)>> \o Replace(Tail(s), old, new)

DigitVal(c) ==
    CASE c = "0" -> 0 [] c = "1" -> 1 [] c = "2" -> 2 [] c = "3" -> 3 [] c = "4" -> 4
      [] c = "5" -> 5 [] c = "6" -> 6 [] c = "7" -> 7 [] c = "8" -> 8 [] c = "9" -> 9

\* int(s) of a string of digits
RECURSIVE StrToInt(_)
StrToInt(s) ==
    IF s = <<>> THEN 0 ELSE 10 * StrToInt(Take(s, Len(s) - 1)) + DigitVal(s[Len(s)])

DigitChar(d) ==
    CASE d = 0 -> "0" [] d = 1 -> "1" [] d = 2 -> "2" [] d = 3 -> "3" [] d = 4 -> "4"
      [] d = 5 -> "5" [] d = 6 -> "6" [] d = 7 -> "7" [] d = 8 -> "8" [] d = 9 -> "9"

\* str(n) of a natural number, as an f-string formats it
RECURSIVE IntToStr(_)
IntToStr(n) ==
    IF n < 10 THEN <<DigitChar(n)>> ELSE IntToStr(n \div 10) \o <<DigitChar(n % 10)>>

T_BAB == <<"B", "A", "B">>

\* re.match(r'BAB\s+([IVX]+)\s+(.+)', t): [ok, roman, title]
ChapterMatch(t) ==
    LET r1 == Drop(t, 3)
        w1 == RunLen(r1, Space)
        r2 == Drop(r1, w1)
        n == RunLen(r2, RomanLetters)
        r3 == Drop(r2, n)
        w2 == RunLen(r3, Space)
        r4 == Drop(r3, w2)
    IN  IF StartsWith(t, T_BAB) /\ w1 >= 1 /\ n >= 1 /\ w2 >= 1 /\ Len(r4) >= 1
        THEN [ok |-> TRUE, roman |-> Take(r2, n), title |-> Strip(r4)]
        ELSE [ok |-> FALSE, roman |-> <<>>, title |-> <<>>]

\* re.match(r'BAB\s+[IVX]+', t)
ChapterPrefixMatch(t) ==
    LET r1 == Drop(t, 3)
        w1 == RunLen(r1, Space)
    IN  StartsWith(t, T_BAB) /\ w1 >= 1 /\ RunLen(Drop(r1, w1), RomanLetters) >= 1

\* re.match(r'(\d+)\.(\d+)\s+(.+)', t): [ok, major, title]
SubsectionMatch(t) ==
    LET n1 == RunLen(t, Digits)
        r1 == Drop(t, n1)
        r2 == Drop(r1, 1)
        n2 == RunLen(r2, Digits)
        r3 == Drop(r2, n2)
        w == RunLen(r3, Space)
        r4 == Drop(r3, w)
    IN  IF n1 >= 1 /\ StartsWith(r1, <<".">>) /\ n2 >= 1 /\ w >= 1 /\ Len(r4) >= 1
        THEN [ok |-> TRUE, major |-> Take(t, n1), minor |-> Take(r2, n2), title |-> r4]
        ELSE [ok |-> FALSE, major |-> <<>>, minor |-> <<>>, title |-> <<>>]

(***************************************************************************)
(* The rule set (config) every component is constructed with.              *)
(***************************************************************************)
T_P == <<"P">>

T_K == <<"K">>

T_M == <<"M">>

Txt_BAB_I == <<"B", "A", "B", " ", "I", " ">>

Txt_BAB_II == <<"B", "A", "B", " ", "I", "I", " ">>

Txt_BAB_III == <<"B", "A", "B", " ", "I", "I", "I", " ">>

Config ==
    [margins |-> [top |-> 400, bottom |-> 300, left |-> 400, right |-> 300],
     family |-> "Times New Roman",
     size |-> 12,
     spacing |-> 20,
     required_sections |-> <<Txt_BAB_I \o T_P, Txt_BAB_II \o T_K>>,
     subsections |-> <<[chapter |-> Txt_BAB_I \o T_P, required |-> <<<<"t", "a">>>>]>>]

(***************************************************************************)
(* Documents.  A run is [text, name, size, bold, italic]; a paragraph is   *)
(* [runs, alignment, line_spacing, src]; a document is [paras, sections,   *)
(* tables].  None (0 for a size or a spacing) stands for an attribute that *)
(* is not set; bold and italic are "True", "False" or None.  src is the    *)
(* index the paragraph had in the document it was loaded from (0 for a     *)
(* paragraph created by the program): it is how a copied paragraph is      *)
(* told from the others.                                                   *)
(***************************************************************************)
Run(text, name, size, bold, italic) ==
    [text |-> text, name |-> name, size |-> size, bold |-> bold, italic |-> italic]

Para(runs, alignment, spacing) ==
    [runs |-> runs, alignment |-> alignment, line_spacing |-> spacing, src |-> 0]

RECURSIVE ConcatTexts(_)
ConcatTexts(runs) ==
    IF runs = <<>> THEN <<>> ELSE Head(runs).text \o ConcatTexts(Tail(runs))

\* paragraph.text
ParaText(p) == ConcatTexts(p.runs)

\* Document(): the blank document of the library's default template
DefaultMargins == [top |-> 254, bottom |-> 254, left |-> 318, right |-> 318]

BlankDocument == [paras |-> <<>>, sections |-> <<DefaultMargins>>, tables |-> 0]

\* Document(path): the paragraphs of a loaded document, in order
Loaded(doc) ==
    [doc EXCEPT !.paras = [i \in 1..Len(doc.paras) |-> [doc.paras[i] EXCEPT !.src = i]]]

(***************************************************************************)
(* Roman numerals (document_restructurer.py).                              *)
(***************************************************************************)
RomanValue(c) ==
    CASE c = "I" -> 1 [] c = "V" -> 5 [] c = "X" -> 10 [] OTHER -> 0

\* a loop that adds every value, with no subtractive pairs
RECURSIVE RomanLoopAdding(_, _, _, _)
RomanLoopAdding(roman, i, result, prev_value) ==
    IF i = 0 THEN result
    ELSE RomanLoopAdding(roman, i - 1, result + RomanValue(roman[i]), RomanValue(roman[i]))

\* the loop of _roman_to_int over reversed(roman), from character i down
RECURSIVE RomanLoop(_, _, _, _)
RomanLoop(roman, i, result, prev_value) ==
    IF i = 0 THEN result
    ELSE LET value == RomanValue(roman[i])
         IN  RomanLoop(roman, i - 1,
                       IF value < prev_value THEN result - value ELSE result + value,
                       value)

_roman_to_int(roman) == RomanLoop(roman, Len(roman), 0, 0)

RomanValues == <<10, 9, 5, 4, 1>>

RomanLiterals == <<<<"X">>, <<"I", "X">>, <<"V">>, <<"I", "V">>, <<"I">>>>

RECURSIVE Repeat(_, _)
Repeat(s, count) == IF count <= 0 THEN <<>> ELSE s \o Repeat(s, count - 1)

RECURSIVE IntToRomanLoop(_, _, _)
IntToRomanLoop(num, i, result) ==
    IF i > Len(RomanValues) THEN result
    ELSE LET count == num \div RomanValues[i]
         IN  IntToRomanLoop(num - RomanValues[i] * count, i + 1,
                            result \o Repeat(RomanLiterals[i], count))

_int_to_roman(num) == IntToRomanLoop(num, 1, <<>>)

(***************************************************************************)
(* Sorting: Python's sorted() is stable.                                   *)
(***************************************************************************)
RECURSIVE InsertInt(_, _)
InsertInt(sorted, x) ==
    IF sorted = <<>> THEN <<x>>
    ELSE IF Head(sorted) <= x THEN <<Head(sorted)>> \o InsertInt(Tail(sorted), x)
    ELSE <<x>> \o sorted

\* sorted(chapter_numbers, reverse=True)
RECURSIVE SortedIntsDescending(_)
SortedIntsDescending(s) ==
    IF s = <<>> THEN <<>>
    ELSE LET rest == SortedIntsDescending(Take(s, Len(s) - 1))
             k == Cardinality({i \in 1..Len(rest) : rest[i] >= s[Len(s)]})
         IN  Take(rest, k) \o <<s[Len(s)]>> \o Drop(rest, k)

\* sorted(chapter_numbers)
RECURSIVE SortedInts(_)
SortedInts(s) ==
    IF s = <<>> THEN <<>> ELSE InsertInt(SortedInts(Take(s, Len(s) - 1)), s[Len(s)])

RECURSIVE InsertChapter(_, _)
InsertChapter(sorted, ch) ==
    IF sorted = <<>> THEN <<ch>>
    ELSE IF Head(sorted).chapter_number <= ch.chapter_number
         THEN <<Head(sorted)>> \o InsertChapter(Tail(sorted), ch)
         ELSE <<ch>> \o sorted

\* the chapters in the order they were found, not sorted
ChaptersAsFound(s) == s

\* sorted(chapters, key=lambda x: x['chapter_number'])
RECURSIVE SortedChapters(_)
SortedChapters(s) ==
    IF s = <<>> THEN <<>>
    ELSE InsertChapter(SortedChapters(Take(s, Len(s) - 1)), s[Len(s)])

TitlesOf(chapters) == [i \in 1..Len(chapters) |-> chapters[i].title]

NumbersOf(chapters) == [i \in 1..Len(chapters) |-> chapters[i].chapter_number]

(***************************************************************************)
(* Violations and correction requests.  A key the code leaves out of the   *)
(* dictionary is None here (<<>> for a location); auto_correctable is      *)
(* "True", "False" or None.                                                *)
(***************************************************************************)
NoCorrection == [type |-> None, margin |-> None, value |-> 0]

Correction(type, margin, value) == [type |-> type, margin |-> margin, value |-> value]

Violation(type, severity, auto, correction, location, about) ==
    [type |-> type, severity |-> severity, auto_correctable |-> auto,
     correction |-> correction, location |-> location, about |-> about]

(***************************************************************************)
(* analyze_document_structure (document_restructurer.py).                  *)
(***************************************************************************)
\* the chapter headings of paragraphs i.. (1-based i), in source order
RECURSIVE DetectChapters(_, _)
DetectChapters(paras, i) ==
    IF i > Len(paras) THEN <<>>
    ELSE LET text == Upper(Strip(ParaText(paras[i])))
             m == ChapterMatch(text)
         IN  IF m.ok
             THEN <<[paragraph_index |-> i - 1,
                     roman_numeral |-> m.roman,
                     chapter_number |-> _roman_to_int(m.roman),
                     title |-> m.title,
                     full_text |-> text,
                     subsections |-> <<>>]>> \o DetectChapters(paras, i + 1)
             ELSE DetectChapters(paras, i + 1)

\* the length of the first alternative of the subsection number that the
\* pattern r'(\d+\.\d+|\d+\.\d+\.\d+|[A-Z]\.|[0-9]+\.)\s+(.+)' can use; 0 if none
SubsectionNumberLen(t) ==
    LET n1 == RunLen(t, Digits)
        dot1 == n1 >= 1 /\ StartsWith(Drop(t, n1), <<".">>)
        n2 == RunLen(Drop(t, n1 + 1), Digits)
        alt1 == IF dot1 /\ n2 >= 1 THEN n1 + 1 + n2 ELSE 0
        dot2 == alt1 > 0 /\ StartsWith(Drop(t, alt1), <<".">>)
        n3 == RunLen(Drop(t, alt1 + 1), Digits)
        alt2 == IF dot2 /\ n3 >= 1 THEN alt1 + 1 + n3 ELSE 0
        alt3 == IF Len(t) >= 2 /\ t[1] \in UpperLetters /\ t[2] = "." THEN 2 ELSE 0
        alt4 == IF dot1 THEN n1 + 1 ELSE 0
        Fits(len) == len > 0 /\ RunLen(Drop(t, len), Space) >= 1
                     /\ Len(Drop(t, len + RunLen(Drop(t, len), Space))) >= 1
    IN  IF Fits(alt1) THEN alt1
        ELSE IF Fits(alt2) THEN alt2
        ELSE IF Fits(alt3) THEN alt3
        ELSE IF Fits(alt4) THEN alt4
        ELSE 0

\* _extract_subsections: the loop from paragraph i (1-based) on
RECURSIVE ExtractLoop(_, _, _, _)
ExtractLoop(paras, i, current_chapter_idx, chapters) ==
    IF i > Len(paras) THEN chapters
    ELSE LET text == Strip(ParaText(paras[i]))
             len == SubsectionNumberLen(text)
             rest == Drop(text, len)
         IN  IF ChapterPrefixMatch(Upper(text))
             THEN ExtractLoop(paras, i + 1, current_chapter_idx + 1, chapters)
             ELSE IF len > 0 /\ current_chapter_idx >= 0
                     /\ current_chapter_idx < Len(chapters)
             THEN ExtractLoop(paras, i + 1, current_chapter_idx,
                     [chapters EXCEPT ![current_chapter_idx + 1].subsections =
                         Append(@, [paragraph_index |-> i - 1,
                                    number |-> Take(text, len),
                                    title |-> Drop(rest, RunLen(rest, Space)),
                                    full_text |-> text])])
             ELSE ExtractLoop(paras, i + 1, current_chapter_idx, chapters)

_extract_subsections(doc, chapters) == ExtractLoop(doc.paras, 1, -1, chapters)

\* required.replace('BAB I ', '').replace('BAB II ', '').replace('BAB III ', '')
RequiredClean(required) ==
    Replace(Replace(Replace(required, Txt_BAB_I, <<>>), Txt_BAB_II, <<>>), Txt_BAB_III, <<>>)

\* the records of the required chapters no detected title contains
RECURSIVE MissingSections(_, _)
MissingSections(required_chapters, titles) ==
    IF required_chapters = <<>> THEN <<>>
    ELSE LET required == Head(required_chapters)
             found == \E k \in 1..Len(titles) : Contains(titles[k], RequiredClean(required))
             rest == MissingSections(Tail(required_chapters), titles)
         IN  IF found THEN rest
             ELSE <<Violation("missing_chapter", "error", "False", NoCorrection, <<>>,
                              required)>> \o rest

\* the dictionary the except branch returns: no severity, no auto_correctable,
\* no missing_sections
AnalysisError ==
    [chapters |-> <<>>,
     structure_issues |-> <<Violation("analysis_error", None, None, NoCorrection, <<>>, <<>>)>>,
     reordering_needed |-> FALSE,
     has_missing_sections |-> FALSE,
     missing_sections |-> <<>>]

\* fails: an exception is raised inside the try block (the document cannot be
\* opened, a key of the rule set is absent)
\* an order test that looks at the first and the last chapter only
ReorderingNeededByEnds(chapter_numbers) ==
    Len(chapter_numbers) > 1
        /\ chapter_numbers[1] > chapter_numbers[Len(chapter_numbers)]

\* len(chapters) > 1 and chapter_numbers != sorted(chapter_numbers)
ReorderingNeeded(chapter_numbers) ==
    Len(chapter_numbers) > 1 /\ chapter_numbers # SortedInts(chapter_numbers)

analyze_document_structure(doc, fails) ==
    IF fails THEN AnalysisError
    ELSE LET chapters == DetectChapters(doc.paras, 1)
             chapter_numbers == NumbersOf(chapters)
             reorder == ReorderingNeeded(chapter_numbers)
         IN  [chapters |-> _extract_subsections(doc, chapters),
              structure_issues |->
                  IF reorder
                  THEN <<Violation("chapter_order", "error", "True", NoCorrection, <<>>, <<>>)>>
                  ELSE <<>>,
              reordering_needed |-> reorder,
              has_missing_sections |-> TRUE,
              missing_sections |->
                  MissingSections(Config.required_sections, TitlesOf(chapters))]

(***************************************************************************)
(* Paths.  A path is [dir, stem, ext]; the stem is the sequence of its     *)
(* underscore-free words and the underscores between them.                 *)
(***************************************************************************)
Path(dir, stem) == [dir |-> dir, stem |-> stem, ext |-> ".docx"]

\* the None a result carries in place of a path
NoPath == [dir |-> None, stem |-> <<>>, ext |-> None]

\* the position of the first "_" of stem, 0 if there is none
RECURSIVE FirstUnderscore(_, _)
FirstUnderscore(stem, i) ==
    IF i > Len(stem) THEN 0
    ELSE IF stem[i] = "_" THEN i ELSE FirstUnderscore(stem, i + 1)

\* name_without_ext.split('_', 1)
SplitOnce(stem) ==
    LET k == FirstUnderscore(stem, 1)
    IN  IF k = 0 THEN <<stem>> ELSE <<Take(stem, k - 1), Drop(stem, k)>>

\* the file name both _save_..._document methods derive, for suffix word
DerivedPath(original_path, word) ==
    LET parts == SplitOnce(original_path.stem)
    IN  IF Len(parts) >= 2
        THEN Path("temp", parts[1] \o <<"_", word>>)
        ELSE Path("temp", <<word, "_">> \o original_path.stem)

Exists(fs, path) == path \in DOMAIN fs

\* doc.save(path)
Saved(fs, path, doc) ==
    [q \in (DOMAIN fs) \cup {path} |-> IF q = path THEN doc ELSE fs[q]]

(***************************************************************************)
(* restructure_document (document_restructurer.py).                        *)
(***************************************************************************)
\* _create_corrected_chapter_heading: the paragraph added to the new document
_create_corrected_chapter_heading(chapter_info) ==
    Para(<<Run(T_BAB \o <<" ">> \o _int_to_roman(chapter_info.chapter_number)
                    \o <<" ">> \o chapter_info.title,
               "Times New Roman", 12, "True", None)>>,
         "CENTER", 0)

\* the copy of one run: an attribute is set on the copy only if it is truthy
CopyRun(run) ==
    Run(run.text,
        IF run.name # None THEN run.name ELSE None,
        IF run.size # 0 THEN run.size ELSE 0,
        IF run.bold = "True" THEN "True" ELSE None,
        IF run.italic = "True" THEN "True" ELSE None)

CopyParagraph(para) ==
    [runs |-> [k \in 1..Len(para.runs) |-> CopyRun(para.runs[k])],
     alignment |-> para.alignment,
     line_spacing |-> 0,
     src |-> para.src]

\* end_idx without the test "paragraph_index < end_idx": the last heading
\* index after start_idx in the order of the chapter list
RECURSIVE EndIndexAnyFollowing(_, _, _)
EndIndexAnyFollowing(chapters, start_idx, end_idx) ==
    IF chapters = <<>> THEN end_idx
    ELSE LET idx == Head(chapters).paragraph_index
         IN  EndIndexAnyFollowing(Tail(chapters), start_idx,
                                  IF idx > start_idx THEN idx ELSE end_idx)

\* end_idx of _copy_chapter_content: the smallest heading index after start_idx
RECURSIVE EndIndex(_, _, _)
EndIndex(chapters, start_idx, end_idx) ==
    IF chapters = <<>> THEN end_idx
    ELSE LET idx == Head(chapters).paragraph_index
         IN  EndIndex(Tail(chapters), start_idx,
                      IF idx > start_idx /\ idx < end_idx THEN idx ELSE end_idx)

\* the copies of paragraphs i .. end_idx - 1 (0-based), empty ones skipped
RECURSIVE CopyRange(_, _, _)
CopyRange(paras, i, end_idx) ==
    IF i >= end_idx THEN <<>>
    ELSE IF i < Len(paras) /\ Strip(ParaText(paras[i + 1])) # <<>>
         THEN <<CopyParagraph(paras[i + 1])>> \o CopyRange(paras, i + 1, end_idx)
         ELSE CopyRange(paras, i + 1, end_idx)

\* _renumber_subsections: the loop over all paragraphs of the target document
RECURSIVE RenumberLoop(_, _, _, _)
RenumberLoop(paras, i, chapter_number, subsection_counter) ==
    IF i > Len(paras) THEN paras
    ELSE LET m == SubsectionMatch(Strip(ParaText(paras[i])))
         IN  IF m.ok /\ StrToInt(m.major) # chapter_number
             THEN RenumberLoop(
                     [paras EXCEPT ![i].runs =
                         <<Run(IntToStr(chapter_number) \o <<".">>
                                   \o IntToStr(subsection_counter) \o <<" ">> \o m.title,
                               "Times New Roman", 12, None, None)>>],
                     i + 1, chapter_number, subsection_counter + 1)
             ELSE RenumberLoop(paras, i + 1, chapter_number, subsection_counter)

_renumber_subsections(target_paras, chapter_number) ==
    RenumberLoop(target_paras, 1, chapter_number, 1)

\* _copy_chapter_content: the paragraphs of the target document afterwards
_copy_chapter_content(source_doc, target_paras, chapter_info, analysis) ==
    LET start_idx == chapter_info.paragraph_index
        end_idx == EndIndex(analysis.chapters, start_idx, Len(source_doc.paras))
    IN  _renumber_subsections(
            target_paras \o CopyRange(source_doc.paras, start_idx + 1, end_idx),
            chapter_info.chapter_number)

\* the target document after the call of _create_corrected_chapter_heading,
\* whose except branch logs the exception and returns
HeadingCreated(target_paras, chapter_info, faults) ==
    IF "heading" \in faults THEN target_paras
    ELSE Append(target_paras, _create_corrected_chapter_heading(chapter_info))

\* the target document after the call of _copy_chapter_content, whose except
\* branch logs the exception and returns
ContentCopied(source_doc, target_paras, chapter_info, analysis, faults) ==
    IF "copy" \in faults THEN target_paras
    ELSE _copy_chapter_content(source_doc, target_paras, chapter_info, analysis)

\* the loop of restructure_document over sorted_chapters
RECURSIVE EmitChapters(_, _, _, _, _)
EmitChapters(source_doc, target_paras, sorted_chapters, analysis, faults) ==
    IF sorted_chapters = <<>> THEN target_paras
    ELSE EmitChapters(source_doc,
             ContentCopied(source_doc,
                 HeadingCreated(target_paras, Head(sorted_chapters), faults),
                 Head(sorted_chapters), analysis, faults),
             Tail(sorted_chapters), analysis, faults)

RestructureFailed ==
    [success |-> FALSE, message |-> "Restructuring failed", changes_applied |-> <<>>,
     restructured_file_path |-> NoPath, original_order |-> <<>>, corrected_order |-> <<>>]

RestructureNotNeeded ==
    [success |-> TRUE, message |-> "Document structure is already correct",
     changes_applied |-> <<>>, restructured_file_path |-> NoPath,
     original_order |-> <<>>, corrected_order |-> <<>>]

\* _save_restructured_document: the path the document is saved to
_save_restructured_document(original_path) == DerivedPath(original_path, "restructured")

\* the part of restructure_document after the analysis
RestructureAnalysed(fs, document_path, doc, analysis, sorted_chapters, faults) ==
    IF ~analysis.reordering_needed
    THEN [ret |-> RestructureNotNeeded, files |-> fs, written |-> {}]
    ELSE IF "save" \in faults
    THEN [ret |-> RestructureFailed, files |-> fs, written |-> {}]
    ELSE [ret |-> [success |-> TRUE,
                   message |-> "Document successfully restructured",
                   changes_applied |-> TitlesOf(sorted_chapters),
                   restructured_file_path |-> _save_restructured_document(document_path),
                   original_order |-> TitlesOf(analysis.chapters),
                   corrected_order |-> TitlesOf(sorted_chapters)],
          files |-> Saved(fs, _save_restructured_document(document_path),
                          [BlankDocument EXCEPT
                              !.paras = EmitChapters(doc, <<>>, sorted_chapters, analysis,
                                                      faults)]),
          written |-> {_save_restructured_document(document_path)}]

RestructureLoaded(fs, document_path, doc, analysis, faults) ==
    RestructureAnalysed(fs, document_path, doc, analysis,
                        SortedChapters(analysis.chapters), faults)

\* restructure_document on the file system fs: [ret, files, written].
\* faults names the steps that raise: "load", "analysis", "heading", "copy",
\* "save".
restructure_document(fs, document_path, faults) ==
    IF ~Exists(fs, document_path) \/ "load" \in faults
    THEN [ret |-> RestructureFailed, files |-> fs, written |-> {}]
    ELSE RestructureLoaded(fs, document_path, Loaded(fs[document_path]),
             analyze_document_structure(Loaded(fs[document_path]), "analysis" \in faults),
             faults)

(***************************************************************************)
(* validate_document (validator.py).  Each check runs inside its own try   *)
(* block.  An exception is injected by naming the check and the number of  *)
(* items (sections, paragraphs, tables, required sections) the check has   *)
(* handled when it is raised; NoFault is a check that raises nothing.      *)
(***************************************************************************)
NoFault == -1

RECURSIVE Flatten(_)
Flatten(ss) == IF ss = <<>> THEN <<>> ELSE Head(ss) \o Flatten(Tail(ss))

Abs(x) == IF x < 0 THEN -x ELSE x

\* the except branch of a check: what was appended before the exception, and
\* the check's own error
CheckError(type) == Violation(type, "error", "False", NoCorrection, <<>>, <<>>)

Guarded(per_item, fault_at, error_type) ==
    IF fault_at = NoFault THEN Flatten(per_item)
    ELSE Flatten(Take(per_item, fault_at)) \o <<CheckError(error_type)>>

(* Lengths are kept in hundredths of a centimetre; the code compares them as  *)
(* IEEE doubles.  A decimal k/100 is stored as the nearest double, which     *)
(* differs from it by RoundingError(k) / 100 units of 2^-Precision(k).  The  *)
(* errors decide abs(a - b) > t only when the exact difference equals t;    *)
(* the subtraction itself is exact for the lengths used here (1 cm and up). *)
RECURSIVE Pow2(_)
Pow2(n) == IF n <= 0 THEN 1 ELSE 2 * Pow2(n - 1)

RECURSIVE Pow2Mod100(_)
Pow2Mod100(n) == IF n <= 0 THEN 1 ELSE (2 * Pow2Mod100(n - 1)) % 100

\* the exponent e of the double nearest to k/100: 2^e <= k/100 < 2^(e+1)
RECURSIVE BinaryExponent(_, _)
BinaryExponent(k, e) ==
    IF k >= 100
    THEN IF k < 200 * Pow2(e) THEN e ELSE BinaryExponent(k, e + 1)
    ELSE IF k * Pow2(-e) >= 100 THEN e ELSE BinaryExponent(k, e - 1)

\* the number of binary digits after the point in the double nearest to k/100
Precision(k) == IF k = 0 THEN 52 ELSE 52 - BinaryExponent(k, 0)

\* float(k/100) = k/100 + RoundingError(k) / 100 * 2^-Precision(k)
RoundingError(k) ==
    IF k = 0 THEN 0
    ELSE LET r == (k * Pow2Mod100(Precision(k))) % 100
         IN  IF r < 50 THEN -r ELSE 100 - r

\* abs(a - b) > t, computed on the doubles nearest to a/100, b/100 and t/100
FloatAbsDiffExceeds(a, b, t) ==
    IF Abs(a - b) # t THEN Abs(a - b) > t
    ELSE (IF a > b THEN 1 ELSE -1)
             * (RoundingError(a) * Pow2(Precision(t) - Precision(a))
                - RoundingError(b) * Pow2(Precision(t) - Precision(b)))
         - RoundingError(t) > 0

\* tolerance = 0.2 (cm)
MarginTolerance == 20

MarginSides == <<"top", "bottom", "left", "right">>

MarginViolations(section, section_idx) ==
    Flatten([k \in 1..4 |->
        IF FloatAbsDiffExceeds(section[MarginSides[k]], Config.margins[MarginSides[k]],
                               MarginTolerance)
        THEN <<Violation("margin_error", "error", "True",
                         Correction("margin", MarginSides[k], Config.margins[MarginSides[k]]),
                         <<"Section", section_idx>>, <<>>)>>
        ELSE <<>>])

_validate_page_setup(doc, fault_at) ==
    Guarded([i \in 1..Len(doc.sections) |-> MarginViolations(doc.sections[i], i)],
            fault_at, "page_setup_error")

RunViolations(run, para_idx) ==
    (IF run.name # None /\ run.name # Config.family
     THEN <<Violation("font_error", "error", "True", Correction("font", None, 0),
                      <<"Paragraph", para_idx>>, <<>>)>>
     ELSE <<>>)
    \o
    (IF run.size # 0 /\ run.size # Config.size
     THEN <<Violation("font_size_error", "error", "True",
                      Correction("font_size", None, Config.size),
                      <<"Paragraph", para_idx>>, <<>>)>>
     ELSE <<>>)

\* abs(current_spacing - expected_spacing) > 0.1
SpacingTolerance == 1

TypographyViolations(para, para_idx) ==
    IF Strip(ParaText(para)) = <<>> THEN <<>>
    ELSE Flatten([k \in 1..Len(para.runs) |-> RunViolations(para.runs[k], para_idx)])
         \o
         (IF para.line_spacing # 0
             /\ FloatAbsDiffExceeds(10 * para.line_spacing, 10 * Config.spacing,
                                    10 * SpacingTolerance)
          THEN <<Violation("line_spacing_error", "error", "True",
                           Correction("line_spacing", None, Config.spacing),
                           <<"Paragraph", para_idx>>, <<>>)>>
          ELSE <<>>)

_validate_typography(doc, fault_at) ==
    Guarded([i \in 1..Len(doc.paras) |-> TypographyViolations(doc.paras[i], i)],
            fault_at, "typography_error")

T_BAB_SPACE == <<"B", "A", "B", " ">>

\* chapter_headings of _validate_structure
RECURSIVE ChapterHeadings(_, _)
ChapterHeadings(paras, i) ==
    IF i > Len(paras) THEN <<>>
    ELSE LET text == Upper(Strip(ParaText(paras[i])))
         IN  (IF StartsWith(text, T_BAB_SPACE) THEN <<text>> ELSE <<>>)
                 \o ChapterHeadings(paras, i + 1)

InSomeHeading(headings, needle) ==
    \E k \in 1..Len(headings) : Contains(headings[k], Upper(needle))

RequiredSectionViolations(headings, required_section) ==
    IF InSomeHeading(headings, required_section) THEN <<>>
    ELSE <<Violation("structure_error", "error", "False", NoCorrection,
                     <<"Document structure">>, required_section)>>

SubsectionViolations(doc, headings, entry) ==
    IF ~InSomeHeading(headings, entry.chapter) THEN <<>>
    ELSE Flatten([k \in 1..Len(entry.required) |->
            IF \E i \in 1..Len(doc.paras) :
                   Contains(ParaText(doc.paras[i]), entry.required[k])
            THEN <<>>
            ELSE <<Violation("subsection_missing", "warning", "False", NoCorrection,
                             entry.chapter, entry.required[k])>>])

\* the items of the check are the required sections, then the subsection entries
_validate_structure(doc, fault_at) ==
    Guarded([k \in 1..Len(Config.required_sections) |->
                RequiredSectionViolations(ChapterHeadings(doc.paras, 1),
                                          Config.required_sections[k])]
            \o [k \in 1..Len(Config.subsections) |->
                SubsectionViolations(doc, ChapterHeadings(doc.paras, 1),
                                     Config.subsections[k])],
            fault_at, "structure_validation_error")

DocumentReordering ==
    Violation("document_reordering", "error", "True",
              Correction("document_restructure", None, 0),
              <<"Document structure">>, <<>>)

\* a check that reports the missing chapters only of a document in order
OrderViolationsInOrderOnly(analysis) ==
    analysis.structure_issues
    \o (IF analysis.reordering_needed THEN <<DocumentReordering>>
        ELSE IF analysis.has_missing_sections THEN analysis.missing_sections
        ELSE <<CheckError("document_order_validation_error")>>)

\* _validate_document_order: analysis['missing_sections'] raises KeyError when
\* the analysis returned its error dictionary
OrderViolations(analysis) ==
    analysis.structure_issues
    \o (IF analysis.reordering_needed THEN <<DocumentReordering>> ELSE <<>>)
    \o (IF analysis.has_missing_sections THEN analysis.missing_sections
        ELSE <<CheckError("document_order_validation_error")>>)

\* fault_at 0: the check raises before the analysis; analysis_fails: the
\* analysis itself ends in its except branch
_validate_document_order(doc, fault_at, analysis_fails) ==
    IF fault_at # NoFault THEN <<CheckError("document_order_validation_error")>>
    ELSE OrderViolations(analyze_document_structure(doc, analysis_fails))

\* re.match(r'BAB [IVX]+ ', t)
HeadingFormatMatch(t) ==
    /\ StartsWith(t, T_BAB_SPACE)
    /\ RunLen(Drop(t, 4), RomanLetters) >= 1
    /\ StartsWith(Drop(t, 4 + RunLen(Drop(t, 4), RomanLetters)), <<" ">>)

HeadingViolations(para, para_idx) ==
    IF ~StartsWith(Upper(Strip(ParaText(para))), T_BAB_SPACE) THEN <<>>
    ELSE (IF para.alignment # "CENTER"
          THEN <<Violation("heading_alignment", "error", "True",
                           Correction("heading_alignment", None, 0),
                           <<"Paragraph", para_idx>>, <<>>)>>
          ELSE <<>>)
         \o
         (IF para.runs # <<>> /\ para.runs[1].bold # "True"
          THEN <<Violation("heading_bold", "error", "True",
                           Correction("heading_bold", None, 0),
                           <<"Paragraph", para_idx>>, <<>>)>>
          ELSE <<>>)
         \o
         (IF ~HeadingFormatMatch(Upper(Strip(ParaText(para))))
          THEN <<Violation("heading_format", "warning", "False", NoCorrection,
                           <<"Paragraph", para_idx>>, <<>>)>>
          ELSE <<>>)

_validate_headings(doc, fault_at) ==
    Guarded([i \in 1..Len(doc.paras) |-> HeadingViolations(doc.paras[i], i)],
            fault_at, "heading_validation_error")

_validate_tables_figures(doc, fault_at) ==
    Guarded([i \in 1..doc.tables |->
                <<Violation("table_title_check", "suggestion", "False", NoCorrection,
                            <<"Table", i>>, <<>>)>>],
            fault_at, "table_figure_validation_error")

\* text.split('. ')
RECURSIVE SplitSentences(_, _)
SplitSentences(text, current) ==
    IF text = <<>> THEN <<current>>
    ELSE IF StartsWith(text, <<".", " ">>)
         THEN <<current>> \o SplitSentences(Drop(text, 2), <<>>)
         ELSE SplitSentences(Tail(text), Append(current, Head(text)))

\* re.search(r'\d+\.\d+', text)
HasDottedDecimal(text) ==
    \E i \in 1..(Len(text) - 2) :
        text[i] \in Digits /\ text[i + 1] = "." /\ text[i + 2] \in Digits

TextViolations(para, para_idx) ==
    LET sentences == SplitSentences(ParaText(para), <<>>)
    IN  Flatten([k \in 1..Len(sentences) |->
            IF RunLen(Strip(sentences[k]), Digits) >= 1
            THEN <<Violation("number_start_sentence", "warning", "False", NoCorrection,
                             <<"Paragraph", para_idx, "Sentence", k>>, <<>>)>>
            ELSE <<>>])
        \o
        (IF HasDottedDecimal(ParaText(para))
         THEN <<Violation("decimal_separator", "warning", "True",
                          Correction("decimal_separator", None, 0),
                          <<"Paragraph", para_idx>>, <<>>)>>
         ELSE <<>>)

_validate_text_formatting(doc, fault_at) ==
    Guarded([i \in 1..Len(doc.paras) |-> TextViolations(doc.paras[i], i)],
            fault_at, "text_formatting_error")

SystemError == Violation("system_error", "error", None, NoCorrection, <<>>, <<>>)

\* the number of items after which a fault of set faults makes check raise
FaultAt(faults, check) ==
    IF \E f \in faults : f[1] = check
    THEN (CHOOSE f \in faults : f[1] = check)[2]
    ELSE NoFault

\* a pipeline with one try block around all the checks: the first exception
\* ends the validation
ValidateLoadedAborting(doc, faults) ==
    IF faults # {} THEN <<SystemError>>
    ELSE _validate_page_setup(doc, NoFault)
         \o _validate_typography(doc, NoFault)
         \o _validate_structure(doc, NoFault)
         \o _validate_document_order(doc, NoFault, FALSE)
         \o _validate_headings(doc, NoFault)
         \o _validate_tables_figures(doc, NoFault)
         \o _validate_text_formatting(doc, NoFault)

\* the pipeline once the document is loaded: an exception that leaves a check
\* would end in the except branch of validate_document
ValidateLoaded(doc, faults) ==
    _validate_page_setup(doc, FaultAt(faults, "page_setup"))
    \o _validate_typography(doc, FaultAt(faults, "typography"))
    \o _validate_structure(doc, FaultAt(faults, "structure"))
    \o _validate_document_order(doc, FaultAt(faults, "document_order"),
                                FaultAt(faults, "analysis") # NoFault)
    \o _validate_headings(doc, FaultAt(faults, "headings"))
    \o _validate_tables_figures(doc, FaultAt(faults, "tables_figures"))
    \o _validate_text_formatting(doc, FaultAt(faults, "text_formatting"))

\* validate_document: the list of violations
validate_document(fs, document_path, faults) ==
    IF ~Exists(fs, document_path) \/ FaultAt(faults, "load") # NoFault
    THEN <<SystemError>>
    ELSE ValidateLoaded(Loaded(fs[document_path]), faults)

(***************************************************************************)
(* apply_corrections (corrector.py).  A group works on the document in     *)
(* place: what it changed before an exception stays changed.  An injected  *)
(* exception names the group and the number of items (sections or          *)
(* paragraphs) the group has handled when it is raised.                    *)
(***************************************************************************)
Applied(group, margin, value) == [group |-> group, margin |-> margin, value |-> value]

Failed(group) == [group |-> group]

\* corrections_by_type[type]
RECURSIVE OfType(_, _)
OfType(corrections, type) ==
    IF corrections = <<>> THEN <<>>
    ELSE (IF Head(corrections).type = type THEN <<Head(corrections)>> ELSE <<>>)
             \o OfType(Tail(corrections), type)

Requested(corrections, type) == OfType(corrections, type) # <<>>

\* the inner loop of _apply_margin_corrections on one section: [item, applied]
RECURSIVE MarginLoop(_, _, _)
MarginLoop(section, margin_corrections, applied) ==
    IF margin_corrections = <<>> THEN [item |-> section, applied |-> applied]
    ELSE LET c == Head(margin_corrections)
         IN  IF c.margin \in {"top", "bottom", "left", "right"}
             THEN MarginLoop([section EXCEPT ![c.margin] = c.value],
                             Tail(margin_corrections),
                             Append(applied, Applied("margin", c.margin, c.value)))
             ELSE MarginLoop(section, Tail(margin_corrections), applied)

FixRunFont(run) ==
    IF run.name # None /\ run.name # Config.family
    THEN [item |-> [run EXCEPT !.name = Config.family],
          applied |-> <<Applied("font", None, 0)>>]
    ELSE [item |-> run, applied |-> <<>>]

FixRunSize(run) ==
    IF run.size # 0 /\ run.size # Config.size
    THEN [item |-> [run EXCEPT !.size = Config.size],
          applied |-> <<Applied("font_size", None, Config.size)>>]
    ELSE [item |-> run, applied |-> <<>>]

FixRunBold(run) ==
    IF run.bold # "True"
    THEN [item |-> [run EXCEPT !.bold = "True"],
          applied |-> <<Applied("heading_alignment", "bold", 0)>>]
    ELSE [item |-> run, applied |-> <<>>]

\* one paragraph of _apply_font_corrections
FontOnPara(para) ==
    [item |-> [para EXCEPT !.runs = [k \in 1..Len(para.runs) |-> FixRunFont(para.runs[k]).item]],
     applied |-> Flatten([k \in 1..Len(para.runs) |-> FixRunFont(para.runs[k]).applied])]

\* one paragraph of _apply_font_size_corrections
FontSizeOnPara(para) ==
    [item |-> [para EXCEPT !.runs = [k \in 1..Len(para.runs) |-> FixRunSize(para.runs[k]).item]],
     applied |-> Flatten([k \in 1..Len(para.runs) |-> FixRunSize(para.runs[k]).applied])]

\* one paragraph of _apply_line_spacing_corrections
LineSpacingOnPara(para) ==
    IF Strip(ParaText(para)) # <<>> /\ para.line_spacing # 0
       /\ FloatAbsDiffExceeds(10 * para.line_spacing, 10 * Config.spacing,
                              10 * SpacingTolerance)
    THEN [item |-> [para EXCEPT !.line_spacing = Config.spacing],
          applied |-> <<Applied("line_spacing", None, Config.spacing)>>]
    ELSE [item |-> para, applied |-> <<>>]

\* one paragraph of _apply_heading_alignment_corrections
HeadingOnPara(para) ==
    IF StartsWith(Upper(Strip(ParaText(para))), T_BAB_SPACE)
    THEN [item |-> [para EXCEPT
                       !.alignment = "CENTER",
                       !.runs = [k \in 1..Len(para.runs) |-> FixRunBold(para.runs[k]).item]],
          applied |-> (IF para.alignment # "CENTER"
                       THEN <<Applied("heading_alignment", "center", 0)>> ELSE <<>>)
                      \o Flatten([k \in 1..Len(para.runs) |->
                                     FixRunBold(para.runs[k]).applied])]
    ELSE [item |-> para, applied |-> <<>>]

WordChars == Digits \cup UpperLetters \cup {"a", "b", "i", "k", "p", "t", "x", "y", "_"}

\* a pattern whose fractional part has no upper bound
DecimalMatchLenUnbounded(prev, text) ==
    LET n1 == RunLen(text, Digits)
        n2 == RunLen(Drop(text, n1 + 1), Digits)
        rest == Drop(text, n1 + 1 + n2)
    IN  IF /\ prev \notin WordChars
           /\ n1 >= 1
           /\ StartsWith(Drop(text, n1), <<".">>)
           /\ n2 >= 1
           /\ (rest = <<>> \/ Head(rest) \notin WordChars)
        THEN n1 + 1 + n2
        ELSE 0

\* the length of the match of r'\b(\d+)\.(\d{1,3})\b(?!\d)' at the head of
\* text, which follows the character prev (None at the start); 0 if none
DecimalMatchLen(prev, text) ==
    LET n1 == RunLen(text, Digits)
        n2 == RunLen(Drop(text, n1 + 1), Digits)
        rest == Drop(text, n1 + 1 + n2)
    IN  IF /\ prev \notin WordChars
           /\ n1 >= 1
           /\ StartsWith(Drop(text, n1), <<".">>)
           /\ n2 >= 1 /\ n2 <= 3
           /\ (rest = <<>> \/ Head(rest) \notin WordChars)
        THEN n1 + 1 + n2
        ELSE 0

\* re.sub(pattern, r'\1,\2', text), scanning from the left
RECURSIVE FixDecimalsFrom(_, _)
FixDecimalsFrom(prev, text) ==
    IF text = <<>> THEN <<>>
    ELSE LET len == DecimalMatchLen(prev, text)
             n1 == RunLen(text, Digits)
         IN  IF len > 0
             THEN Take(text, n1) \o <<",">> \o SubSeq(text, n1 + 2, len)
                      \o FixDecimalsFrom(text[len], Drop(text, len))
             ELSE <<Head(text)>> \o FixDecimalsFrom(Head(text), Tail(text))

_fix_decimal_separators(text) == FixDecimalsFrom(None, text)

\* one paragraph of _apply_decimal_separator_corrections
DecimalOnPara(para) ==
    IF _fix_decimal_separators(ParaText(para)) # ParaText(para)
    THEN [item |-> [para EXCEPT
                       !.runs = <<Run(_fix_decimal_separators(ParaText(para)),
                                      None, 0, None, None)>>],
          applied |-> <<Applied("decimal_separator", None, 0)>>]
    ELSE [item |-> para, applied |-> <<>>]

\* a group with no try block of its own: its exception leaves the group
GroupOutcomeRaising(items, steps, fault_at, group) ==
    LET n == IF fault_at = NoFault \/ fault_at > Len(items) THEN Len(items) ELSE fault_at
    IN  [items |-> [i \in 1..Len(items) |-> IF i <= n THEN steps[i].item ELSE items[i]],
         applied |-> Flatten([i \in 1..n |-> steps[i].applied]),
         failed |-> <<>>,
         raised |-> fault_at # NoFault]

\* the outcome of one group whose per-item steps are given: the items handled
\* before the exception are changed, the others are not; the exception is
\* caught in the group and recorded in failed
GroupOutcome(items, steps, fault_at, group) ==
    LET n == IF fault_at = NoFault \/ fault_at > Len(items) THEN Len(items) ELSE fault_at
    IN  [items |-> [i \in 1..Len(items) |-> IF i <= n THEN steps[i].item ELSE items[i]],
         applied |-> Flatten([i \in 1..n |-> steps[i].applied]),
         failed |-> IF fault_at = NoFault THEN <<>> ELSE <<Failed(group)>>,
         raised |-> FALSE]

\* [doc, applied, failed, raised] of a group that was not requested
Skipped(doc) == [doc |-> doc, applied |-> <<>>, failed |-> <<>>, raised |-> FALSE]

OnSections(doc, out) ==
    [doc |-> [doc EXCEPT !.sections = out.items],
     applied |-> out.applied, failed |-> out.failed, raised |-> out.raised]

OnParas(doc, out) ==
    [doc |-> [doc EXCEPT !.paras = out.items],
     applied |-> out.applied, failed |-> out.failed, raised |-> out.raised]

_apply_margin_corrections(doc, margin_corrections, fault_at) ==
    OnSections(doc,
        GroupOutcome(doc.sections,
                     [i \in 1..Len(doc.sections) |->
                         MarginLoop(doc.sections[i], margin_corrections, <<>>)],
                     fault_at, "margin"))

_apply_font_corrections(doc, fault_at) ==
    OnParas(doc, GroupOutcome(doc.paras,
                              [i \in 1..Len(doc.paras) |-> FontOnPara(doc.paras[i])],
                              fault_at, "font"))

_apply_font_size_corrections(doc, fault_at) ==
    OnParas(doc, GroupOutcome(doc.paras,
                              [i \in 1..Len(doc.paras) |-> FontSizeOnPara(doc.paras[i])],
                              fault_at, "font_size"))

_apply_line_spacing_corrections(doc, fault_at) ==
    OnParas(doc, GroupOutcome(doc.paras,
                              [i \in 1..Len(doc.paras) |-> LineSpacingOnPara(doc.paras[i])],
                              fault_at, "line_spacing"))

_apply_heading_alignment_corrections(doc, fault_at) ==
    OnParas(doc, GroupOutcome(doc.paras,
                              [i \in 1..Len(doc.paras) |-> HeadingOnPara(doc.paras[i])],
                              fault_at, "heading_alignment"))

_apply_decimal_separator_corrections(doc, fault_at) ==
    OnParas(doc, GroupOutcome(doc.paras,
                              [i \in 1..Len(doc.paras) |-> DecimalOnPara(doc.paras[i])],
                              fault_at, "decimal_separator"))

\* what _apply_document_restructuring makes of the result r of the restructurer
RestructuringOutcome(r) ==
    IF r.ret.success
    THEN [applied |-> [k \in 1..Len(r.ret.changes_applied) |->
                          Applied("document_restructure", None, 0)]
                      \o <<Applied("document_restructure", "order", 0)>>,
          failed |-> <<>>,
          restructured_file_path |-> r.ret.restructured_file_path,
          files |-> r.files, written |-> r.written]
    ELSE [applied |-> <<>>,
          failed |-> <<Failed("document_restructure")>>,
          restructured_file_path |-> NoPath,
          files |-> r.files, written |-> r.written]

\* _apply_document_restructuring: [applied, failed, restructured_file_path,
\* files, written]; the restructurer reads the file at document_path
_apply_document_restructuring(fs, document_path, faults) ==
    RestructuringOutcome(restructure_document(fs, document_path, faults))

\* _save_corrected_document: the path the document is saved to
_save_corrected_document(original_path) == DerivedPath(original_path, "corrected")

\* the result of one group added to the working state w of apply_corrections:
\* [doc, applied, failed, raised]
Accumulate(w, out) ==
    IF w.raised THEN w ELSE
    [doc |-> out.doc, applied |-> w.applied \o out.applied,
     failed |-> w.failed \o out.failed, raised |-> w.raised \/ out.raised]

\* the faults of the restructurer among the injected ones
RestructurerFaults(faults) ==
    {f[2] : f \in {g \in faults : g[1] = "restructurer"}}

MarginGroup(w, corrections, faults) ==
    IF Requested(corrections, "margin")
    THEN Accumulate(w, _apply_margin_corrections(w.doc, OfType(corrections, "margin"),
                                                 FaultAt(faults, "margin")))
    ELSE w

FontGroup(w, corrections, faults) ==
    IF Requested(corrections, "font")
    THEN Accumulate(w, _apply_font_corrections(w.doc, FaultAt(faults, "font")))
    ELSE w

FontSizeGroup(w, corrections, faults) ==
    IF Requested(corrections, "font_size")
    THEN Accumulate(w, _apply_font_size_corrections(w.doc, FaultAt(faults, "font_size")))
    ELSE w

LineSpacingGroup(w, corrections, faults) ==
    IF Requested(corrections, "line_spacing")
    THEN Accumulate(w, _apply_line_spacing_corrections(w.doc,
                                                       FaultAt(faults, "line_spacing")))
    ELSE w

HeadingAlignmentGroup(w, corrections, faults) ==
    IF Requested(corrections, "heading_alignment")
    THEN Accumulate(w, _apply_heading_alignment_corrections(w.doc,
                           FaultAt(faults, "heading_alignment")))
    ELSE w

DecimalSeparatorGroup(w, corrections, faults) ==
    IF Requested(corrections, "decimal_separator")
    THEN Accumulate(w, _apply_decimal_separator_corrections(w.doc,
                           FaultAt(faults, "decimal_separator")))
    ELSE w

\* the six in-place groups, in the order of the code, on the loaded document
InPlaceGroups(doc, corrections, faults) ==
    DecimalSeparatorGroup(
        HeadingAlignmentGroup(
            LineSpacingGroup(
                FontSizeGroup(
                    FontGroup(
                        MarginGroup([doc |-> doc, applied |-> <<>>, failed |-> <<>>,
                                     raised |-> FALSE],
                                    corrections, faults),
                        corrections, faults),
                    corrections, faults),
                corrections, faults),
            corrections, faults),
        corrections, faults)

\* an except branch that returns without recording the exception
CorrectionsAbortedSilently(fs, wrote, applied, failed) ==
    [ret |-> [applied |-> applied, failed |-> failed, corrected_file_path |-> NoPath],
     files |-> fs, written |-> wrote]

\* the result of the except branch of apply_corrections
CorrectionsAborted(fs, wrote, applied, failed) ==
    [ret |-> [applied |-> applied,
              failed |-> Append(failed, Failed("system_error")),
              corrected_file_path |-> NoPath],
     files |-> fs, written |-> wrote]

\* the end of apply_corrections: the document that is saved is the one the
\* in-place groups worked on (w.doc), unless the restructuring result rs names
\* a file, which is then loaded in its place
SaveCorrected(document_path, faults, w, rs) ==
    LET swapped == rs.restructured_file_path # NoPath
        final_path == IF swapped THEN rs.restructured_file_path ELSE document_path
        final_doc == IF swapped THEN Loaded(rs.files[final_path]) ELSE w.doc
        corrected_path == _save_corrected_document(final_path)
    IN  IF w.raised \/ FaultAt(faults, "save") # NoFault
        THEN CorrectionsAborted(rs.files, rs.written, w.applied \o rs.applied,
                                w.failed \o rs.failed)
        ELSE [ret |-> [applied |-> w.applied \o rs.applied,
                       failed |-> w.failed \o rs.failed,
                       corrected_file_path |-> corrected_path],
              files |-> Saved(rs.files, corrected_path, final_doc),
              written |-> rs.written \cup {corrected_path}]

\* apply_corrections after the in-place groups left the working state w
AfterInPlace(fs, document_path, corrections, faults, w) ==
    SaveCorrected(document_path, faults, w,
        IF Requested(corrections, "document_restructure")
        THEN _apply_document_restructuring(fs, document_path, RestructurerFaults(faults))
        ELSE [applied |-> <<>>, failed |-> <<>>, restructured_file_path |-> NoPath,
              files |-> fs, written |-> {}])

\* apply_corrections on the file system fs: [ret, files, written]
apply_corrections(fs, document_path, corrections, faults) ==
    IF ~Exists(fs, document_path) \/ FaultAt(faults, "load") # NoFault
    THEN CorrectionsAborted(fs, {}, <<>>, <<>>)
    ELSE AfterInPlace(fs, document_path, corrections, faults,
                      InPlaceGroups(Loaded(fs[document_path]), corrections, faults))

(***************************************************************************)
(* The documents and paths the operations are run on.                      *)
(***************************************************************************)
MaxChapters == 3

Numerals == {<<"I">>, <<"I", "I">>, <<"I", "I", "I">>}

TitleOf(roman) ==
    CASE roman = <<"I">> -> T_P
      [] roman = <<"I", "I">> -> T_K
      [] OTHER -> T_M

Plain(text) == Para(<<Run(text, "Times New Roman", 12, None, None)>>, "JUSTIFY", 20)

\* a heading as an author typed it
Heading(roman, title) ==
    Para(<<Run(T_BAB \o <<" ">> \o roman \o <<" ">> \o title,
               "Times New Roman", 12, "True", None)>>, "CENTER", 20)

\* a paragraph of two runs, the second one in italics with bold switched off
TwoRuns ==
    Para(<<Run(<<"t", "a">>, None, 0, "True", None),
           Run(<<" ", "x">>, "Arial", 14, "False", "True")>>, "LEFT", 10)

EmptyPara == Para(<<Run(<<" ">>, None, 0, None, None)>>, None, 0)

Bodies ==
    {<<>>,
     <<Plain(<<"1", ".", "1", " ", "a">>), EmptyPara, TwoRuns, Plain(<<"2", ".", "5", " ", "b">>)>>}

ChapterBlocks == {<<Heading(r, TitleOf(r))>> \o b : r \in Numerals, b \in Bodies}

\* the concatenations of n chapter blocks
RECURSIVE BlockSeqs(_)
BlockSeqs(n) ==
    IF n = 0 THEN {<<>>}
    ELSE {ps \o blk : ps \in BlockSeqs(n - 1), blk \in ChapterBlocks}

GoodMargins == Config.margins

StructuredDocs ==
    {[paras |-> ps, sections |-> <<GoodMargins>>, tables |-> 0] :
        ps \in UNION {BlockSeqs(n) : n \in 0..MaxChapters}}

\* temp/<file_id>_<filename>, as the upload stores a file, and a path with no
\* underscore in its name
UploadPaths ==
    {Path("temp", <<"u1", "_", w>>) : w \in {"thesis", "restructured", "corrected"}}
        \cup {Path("in", <<"thesis">>)}

MainPath == Path("temp", <<"u1", "_", "thesis">>)

\* the longest document that is also tried under the other upload paths
MaxPathParas == 4

FaultSets(names) == {{}} \cup {{f} : f \in names}

(***************************************************************************)
(* The restructuring service: one document is uploaded, then restructured; *)
(* any file of the store may be restructured again.                        *)
(***************************************************************************)
InitR ==
    /\ \E d \in StructuredDocs, p \in UploadPaths :
          /\ p = MainPath \/ Len(d.paras) <= MaxPathParas
          /\ files = [q \in {p} |-> d]
    /\ call = "init"
    /\ arg = None
    /\ ret = None
    /\ written = {}

Restructure ==
    \E p \in DOMAIN files, faults \in FaultSets({"load", "analysis", "save"}) :
        \E r \in {restructure_document(files, p, faults)} :
            /\ call' = "restructure"
            /\ arg' = [path |-> p, faults |-> faults, doc |-> files[p]]
            /\ ret' = r.ret
            /\ files' = r.files
            /\ written' = r.written

NextR == Restructure

SpecR == InitR /\ [][NextR]_vars

(***************************************************************************)
(* What the claims speak of, stated without the operators of the model     *)
(* that compute it.                                                        *)
(***************************************************************************)
Ascending(ns) == \A i, j \in 1..Len(ns) : i < j => ns[i] <= ns[j]

\* the chapters the analysis detects in a stored document
DetectedChapters(doc) == DetectChapters(doc.paras, 1)

NonEmpty(para) == Strip(ParaText(para)) # <<>>

\* the 0-based index of the nearest heading after chapter ch, or the length
NextHeadingIndex(chapters, ch, len) ==
    LET after == {chapters[k].paragraph_index : k \in 1..Len(chapters)}
                     \cap (ch.paragraph_index + 1)..len
    IN  IF after = {} THEN len ELSE CHOOSE x \in after : \A y \in after : x <= y

\* the 1-based indices of the non-empty paragraphs of the span of ch
SpanOf(doc, chapters, ch) ==
    {i \in (ch.paragraph_index + 2)..NextHeadingIndex(chapters, ch, Len(doc.paras)) :
        NonEmpty(doc.paras[i])}

\* the positions of the headings the restructurer created in paras
CreatedHeadings(paras) == {i \in 1..Len(paras) : paras[i].src = 0}

\* the positions of paras under the k-th created heading
Under(paras, h) ==
    {i \in (h + 1)..Len(paras) : \A g \in CreatedHeadings(paras) : g <= h \/ g > i}

Bijections(n) == {f \in [1..n -> 1..n] : \A a, b \in 1..n : f[a] = f[b] => a = b}

\* the k-th smallest element of a set of numbers
RECURSIVE Kth(_, _)
Kth(S, k) ==
    LET m == CHOOSE x \in S : \A y \in S : x <= y
    IN  IF k = 1 THEN m ELSE Kth(S \ {m}, k - 1)

\* out holds one created heading per chapter, in the order f of the chapters,
\* and under the heading of each chapter exactly the paragraphs of its span,
\* each once and in source order
PlacedBy(doc, chapters, out, f) ==
    LET hs == CreatedHeadings(out)
        n == Len(chapters)
    IN  /\ Cardinality(hs) = n
        /\ n > 0 => 1 \in hs
        /\ \A k \in 1..n :
              LET h == Kth(hs, k)
                  ch == chapters[f[k]]
                  under == Under(out, h)
              IN  /\ ChapterMatch(Upper(Strip(ParaText(out[h])))).title = ch.title
                  /\ {out[i].src : i \in under} = SpanOf(doc, chapters, ch)
                  /\ \A i, j \in under : i < j => out[i].src < out[j].src

RestructureRan == call = "restructure" /\ "load" \notin arg.faults

RestructureRanClean == call = "restructure" /\ arg.faults = {}

WroteArtifact == call = "restructure" /\ written # {}

Artifact == files[ret.restructured_file_path]

\* C3: restructuring a loadable document whose detected chapter numbers are
\* already ascending (zero or one chapter included) returns success with no
\* changes and no path, and writes no file
C3_AscendingIsNoOp ==
    (RestructureRan /\ Ascending(NumbersOf(DetectedChapters(arg.doc))))
        => /\ ret.success
           /\ ret.changes_applied = <<>>
           /\ ret.restructured_file_path = NoPath
           /\ written = {}
           /\ files[arg.path] = arg.doc

C3_Witness ==
    /\ RestructureRanClean
    /\ Len(DetectedChapters(arg.doc)) = 3
    /\ Ascending(NumbersOf(DetectedChapters(arg.doc)))
    /\ ret.success
    /\ DOMAIN files = {arg.path}

\* C4: restructuring a document whose detected chapter numbers are not
\* ascending returns the titles sorted ascending by chapter number as
\* corrected_order, and the artifact holds every non-empty paragraph of each
\* chapter's original span exactly once, under that chapter's new heading, in
\* source order
C4_SpansFollowTheirChapter ==
    (RestructureRanClean /\ ~Ascending(NumbersOf(DetectedChapters(arg.doc))))
        => /\ ret.success
           /\ written = {ret.restructured_file_path}
           /\ LET doc == arg.doc
                  chapters == DetectedChapters(doc)
              IN  \E f \in Bijections(Len(chapters)) :
                     /\ Ascending([k \in 1..Len(chapters) |-> chapters[f[k]].chapter_number])
                     /\ ret.corrected_order =
                            [k \in 1..Len(chapters) |-> chapters[f[k]].title]
                     /\ PlacedBy(doc, chapters, Artifact.paras, f)

C4_Witness ==
    /\ RestructureRanClean
    /\ NumbersOf(DetectedChapters(arg.doc)) = <<3, 1, 2>>
    /\ WroteArtifact
    /\ Len(Artifact.paras) = 12

\* the chapter number of the created heading that paragraph i of paras is under
HeadingNumberAbove(paras, i) ==
    LET h == CHOOSE g \in CreatedHeadings(paras) :
                 g < i /\ \A g2 \in CreatedHeadings(paras) : g2 < i => g2 <= g
    IN  _roman_to_int(ChapterMatch(Upper(Strip(ParaText(paras[h])))).roman)

\* C5: in a written artifact every paragraph that starts with a subsection
\* prefix <digits>.<digits> has the number of the chapter it lies under as
\* the first component of the prefix
C5_PrefixMatchesChapter ==
    WroteArtifact =>
        \A i \in 1..Len(Artifact.paras) :
            LET m == SubsectionMatch(Strip(ParaText(Artifact.paras[i])))
            IN  (m.ok /\ Artifact.paras[i].src # 0)
                    => StrToInt(m.major) = HeadingNumberAbove(Artifact.paras, i)

(***************************************************************************)
(* The correction service: one document is uploaded, then corrected once;  *)
(* any file of the store may be restructured.                              *)
(***************************************************************************)
\* a heading typed flush left in a regular face
PlainHeading(roman, title) ==
    Para(<<Run(T_BAB \o <<" ">> \o roman \o <<" ">> \o title,
               "Times New Roman", 12, None, None)>>, "LEFT", 20)

T_ta == <<"t", "a">>

T_x_50_5_y == <<"x", " ", "5", "0", ".", "5", " ", "y">>

DraftParas ==
    {<<>>,
     <<Plain(T_ta), EmptyPara>>,
     <<PlainHeading(<<"I">>, T_P), Plain(T_ta)>>,
     <<Heading(<<"I", "I", "I">>, T_M), Heading(<<"I">>, T_P)>>,
     <<Heading(<<"I">>, T_P), Plain(<<"1", ".", "1", " ", "a">>),
       Heading(<<"I", "I">>, T_K), Plain(T_ta)>>,
     <<Heading(<<"I", "I">>, T_K), TwoRuns, Heading(<<"I">>, T_P), Plain(T_x_50_5_y)>>,
     <<Heading(<<"I", "I", "I">>, T_M), PlainHeading(<<"I">>, T_P),
       Plain(<<"2", ".", "5", " ", "b">>), Heading(<<"I", "I">>, T_K)>>}

\* margins as a word processor leaves them
BadMargins == [top |-> 254, bottom |-> 300, left |-> 381, right |-> 300]

DraftSections == {<<GoodMargins>>, <<BadMargins>>, <<BadMargins, GoodMargins>>}

\* margins 0.2 cm and 0.1 cm away from the targets
EdgeMargins == [top |-> 380, bottom |-> 320, left |-> 410, right |-> 290]

\* margins 0.21 cm away from the targets, and one on target
NearMargins == [top |-> 379, bottom |-> 321, left |-> 421, right |-> 300]

Drafts ==
    {[paras |-> ps, sections |-> ss, tables |-> t] :
        ps \in DraftParas,
        ss \in DraftSections \cup {<<EdgeMargins>>, <<NearMargins, EdgeMargins>>},
        t \in {0, 2}}

\* the drafts the correction service is run on
CorrectedDrafts == {d \in Drafts : d.tables = 0 /\ d.sections \in DraftSections}

\* the requests a client builds from the violations, in pipeline order
RequestPool ==
    <<Correction("margin", "top", Config.margins.top),
      Correction("margin", "left", Config.margins.left),
      Correction("font", None, 0),
      Correction("font_size", None, Config.size),
      Correction("line_spacing", None, Config.spacing),
      Correction("heading_alignment", None, 0),
      Correction("decimal_separator", None, 0),
      Correction("document_restructure", None, 0)>>

\* the most requests of one call
MaxRequests == 3

\* the requests of RequestPool at the indices of set chosen, in pool order
RECURSIVE Chosen(_, _)
Chosen(chosen, k) ==
    IF k > Len(RequestPool) THEN <<>>
    ELSE (IF k \in chosen THEN <<RequestPool[k]>> ELSE <<>>) \o Chosen(chosen, k + 1)

RequestLists ==
    {Chosen(chosen, 1) : chosen \in {c \in SUBSET (1..Len(RequestPool)) :
                                         Cardinality(c) <= MaxRequests}}

\* the most items a group or a check handles before an injected exception
MaxFaultAt == 1

InPlaceGroupNames ==
    {"margin", "font", "font_size", "line_spacing", "heading_alignment",
     "decimal_separator"}

\* no exception, or one exception: in a requested group, in a step of the
\* restructurer, or on saving the artifact
CorrectionFaults(corrections) ==
    {{}}
    \cup {{<<g, at>>} : g \in {h \in InPlaceGroupNames : Requested(corrections, h)},
                        at \in 0..MaxFaultAt}
    \cup (IF Requested(corrections, "document_restructure")
          THEN {{<<"restructurer", f>>} : f \in {"load", "analysis", "save"}}
          ELSE {})
    \cup {{<<"save", 0>>}}

InitC ==
    /\ \E d \in CorrectedDrafts, p \in UploadPaths :
          /\ p = MainPath \/ d.sections = <<GoodMargins>>
          /\ files = [q \in {p} |-> d]
    /\ call = "init"
    /\ arg = None
    /\ ret = None
    /\ written = {}

\* a call of apply_corrections with one of the request lists
CorrectWith(lists) ==
    \E p \in DOMAIN files, corrections \in lists :
        \E faults \in CorrectionFaults(corrections) :
            \E r \in {apply_corrections(files, p, corrections, faults)} :
                /\ call' = "correct"
                /\ arg' = [path |-> p, faults |-> faults, doc |-> files[p],
                           corrections |-> corrections]
                /\ ret' = r.ret
                /\ files' = r.files
                /\ written' = r.written

Correct == call = "init" /\ CorrectWith(RequestLists)

NextC == Correct

SpecC == InitC /\ [][NextC]_vars

(***************************************************************************)
(* The artifacts of the two services: a file of the store, an artifact of  *)
(* an earlier call included, is corrected or restructured again.           *)
(***************************************************************************)
ArtifactRequests == {<<>>, <<Correction("document_restructure", None, 0)>>}

InitP ==
    /\ \E d \in CorrectedDrafts, p \in UploadPaths :
          /\ d.sections = <<GoodMargins>>
          /\ files = [q \in {p} |-> d]
    /\ call = "init"
    /\ arg = None
    /\ ret = None
    /\ written = {}

CorrectAgain == CorrectWith(ArtifactRequests)

NextP == CorrectAgain \/ Restructure

SpecP == InitP /\ [][NextP]_vars

(***************************************************************************)
(* The validation service: one document is uploaded, then validated.       *)
(***************************************************************************)
CheckNames ==
    {"page_setup", "typography", "structure", "document_order", "headings",
     "tables_figures", "text_formatting"}

\* no exception, or one: on loading, in a check after some items, or in the
\* analysis the document order check calls
ValidationFaults ==
    {{}}
    \cup {{<<c, at>>} : c \in CheckNames \cup {"load"}, at \in 0..MaxFaultAt}
    \cup {{<<"analysis", 0>>}}

InitV ==
    /\ \E d \in Drafts : files = [q \in {MainPath} |-> d]
    /\ call = "init"
    /\ arg = None
    /\ ret = None
    /\ written = {}

Validate ==
    /\ call = "init"
    /\ \E p \in DOMAIN files, faults \in ValidationFaults :
          /\ call' = "validate"
          /\ arg' = [path |-> p, faults |-> faults, doc |-> files[p]]
          /\ ret' = validate_document(files, p, faults)
          /\ UNCHANGED <<files, written>>

NextV == Validate

SpecV == InitV /\ [][NextV]_vars

(***************************************************************************)
(* get_severity_summary (validator.py) on lists of violations.             *)
(***************************************************************************)
RECURSIVE CountSeverity(_, _)
CountSeverity(violations, key) ==
    IF violations = <<>> THEN 0
    ELSE (IF (IF Head(violations).severity = None THEN "error"
              ELSE Head(violations).severity) = key
          THEN 1 ELSE 0) + CountSeverity(Tail(violations), key)

\* summary[severity] += 1 only if severity in summary
get_severity_summary(violations) ==
    [error |-> CountSeverity(violations, "error"),
     warning |-> CountSeverity(violations, "warning"),
     suggestion |-> CountSeverity(violations, "suggestion")]

\* the longest list of violations summarised
MaxViolations == 3

\* None: the violation has no severity key
Severities == {"error", "warning", "suggestion", "info", None}

ViolationLists ==
    UNION {[1..n -> {Violation("style", sv, "False", NoCorrection, <<>>, <<>>) :
                        sv \in Severities}] : n \in 0..MaxViolations}

InitS ==
    /\ files = <<>>
    /\ call = "init"
    /\ arg \in ViolationLists
    /\ ret = None
    /\ written = {}

Summarise ==
    /\ call = "init"
    /\ call' = "summary"
    /\ ret' = get_severity_summary(arg)
    /\ UNCHANGED <<files, arg, written>>

NextS == Summarise

SpecS == InitS /\ [][NextS]_vars

(***************************************************************************)
(* Properties of the correction and validation services.                   *)
(***************************************************************************)
\* the store the call of apply_corrections started from
StoreBefore == [q \in {arg.path} |-> arg.doc]

CorrectedClean == call = "correct" /\ arg.faults = {}

CorrectedArtifact == files[ret.corrected_file_path]

\* what restructure_document makes of the input of the call
RestructuredInput == restructure_document(StoreBefore, arg.path, {})

\* the call restructured its input and saved an artifact
RestructuredAndSaved ==
    /\ CorrectedClean
    /\ Requested(arg.corrections, "document_restructure")
    /\ RestructuredInput.ret.restructured_file_path # NoPath
    /\ ret.corrected_file_path # NoPath

\* C1: when a restructuring is requested together with other types and
\* succeeds, the saved artifact is the restructured document with the other
\* requested groups applied to it, in the order of the code
C1_GroupsActOnRestructured ==
    (RestructuredAndSaved /\ Len(arg.corrections) > 1)
        => Loaded(CorrectedArtifact)
              = InPlaceGroups(
                    Loaded(RestructuredInput.files[RestructuredInput.ret.restructured_file_path]),
                    arg.corrections, {}).doc

\* the effect an entry of `applied` reports is present in document doc
Reflects(entry, doc) ==
    CASE entry.group = "margin" ->
            \A i \in 1..Len(doc.sections) : doc.sections[i][entry.margin] = entry.value
      [] entry.group = "font" ->
            \A i \in 1..Len(doc.paras) : \A k \in 1..Len(doc.paras[i].runs) :
                doc.paras[i].runs[k].name \in {None, Config.family}
      [] entry.group = "font_size" ->
            \A i \in 1..Len(doc.paras) : \A k \in 1..Len(doc.paras[i].runs) :
                doc.paras[i].runs[k].size \in {0, Config.size}
      [] entry.group = "line_spacing" ->
            \A i \in 1..Len(doc.paras) :
                (NonEmpty(doc.paras[i]) /\ doc.paras[i].line_spacing # 0)
                    => Abs(doc.paras[i].line_spacing - Config.spacing) <= SpacingTolerance
      [] entry.group = "heading_alignment" ->
            \A i \in 1..Len(doc.paras) :
                StartsWith(Upper(Strip(ParaText(doc.paras[i]))), T_BAB_SPACE)
                    => /\ doc.paras[i].alignment = "CENTER"
                       /\ \A k \in 1..Len(doc.paras[i].runs) :
                              doc.paras[i].runs[k].bold = "True"
      [] entry.group = "decimal_separator" ->
            \A i \in 1..Len(doc.paras) :
                _fix_decimal_separators(ParaText(doc.paras[i])) = ParaText(doc.paras[i])
      [] entry.group = "document_restructure" ->
            Ascending(NumbersOf(DetectedChapters(doc)))
      [] OTHER -> TRUE

\* C2: when no group raised and an artifact was saved, the effect of every
\* entry of `applied` is present in the artifact
C2_AppliedGroupsShowInArtifact ==
    (CorrectedClean /\ ret.corrected_file_path # NoPath)
        => \A k \in 1..Len(ret.applied) : Reflects(ret.applied[k], CorrectedArtifact)

\* the correction types apply_corrections has a branch for
HandledTypes ==
    {"margin", "font", "font_size", "line_spacing", "heading_alignment",
     "decimal_separator", "document_restructure"}

\* C6: every violation validate_document returns with auto_correctable true
\* carries a correction whose type apply_corrections handles
C6_AutoCorrectableIsExecutable ==
    call = "validate"
        => \A k \in 1..Len(ret) :
               ret[k].auto_correctable = "True" => ret[k].correction.type \in HandledTypes

\* C7: the file a call of apply_corrections or restructure_document read is
\* not among the files the call wrote
C7_InputNeverOverwritten ==
    call \in {"correct", "restructure"} => arg.path \notin written

\* the violation types each check of validate_document appends
TypesOf(check) ==
    CASE check = "page_setup" -> {"margin_error", "page_setup_error"}
      [] check = "typography" ->
            {"font_error", "font_size_error", "line_spacing_error", "typography_error"}
      [] check = "structure" ->
            {"structure_error", "subsection_missing", "structure_validation_error"}
      [] check = "document_order" ->
            {"chapter_order", "analysis_error", "document_reordering", "missing_chapter",
             "document_order_validation_error"}
      [] check = "headings" ->
            {"heading_alignment", "heading_bold", "heading_format",
             "heading_validation_error"}
      [] check = "tables_figures" -> {"table_title_check", "table_figure_validation_error"}
      [] check = "text_formatting" ->
            {"number_start_sentence", "decimal_separator", "text_formatting_error"}

\* the error each check appends in its except branch
ErrorTypeOf(check) ==
    CASE check = "page_setup" -> "page_setup_error"
      [] check = "typography" -> "typography_error"
      [] check = "structure" -> "structure_validation_error"
      [] check = "document_order" -> "document_order_validation_error"
      [] check = "headings" -> "heading_validation_error"
      [] check = "tables_figures" -> "table_figure_validation_error"
      [] check = "text_formatting" -> "text_formatting_error"

\* the violations of list vs whose type is not in types, in order
RECURSIVE Without(_, _)
Without(vs, types) ==
    IF vs = <<>> THEN <<>>
    ELSE (IF Head(vs).type \in types THEN <<>> ELSE <<Head(vs)>>)
             \o Without(Tail(vs), types)

\* the check in which the one injected exception of the call is raised
FailedCheck ==
    LET f == CHOOSE f \in arg.faults : TRUE
    IN  IF f[1] = "analysis" THEN "document_order" ELSE f[1]

\* a validation of a loaded document in which one check raised
OneCheckFailed ==
    call = "validate" /\ arg.faults # {} /\ FaultAt(arg.faults, "load") = NoFault

\* C8: when one check raises on a loaded document, the violations of the other
\* six checks are returned as in a validation without the exception, in the
\* same order, and the list holds the failed check's own error, of severity
\* error
C8_OtherChecksSurvive ==
    OneCheckFailed
        => /\ Without(ret, TypesOf(FailedCheck))
                = Without(validate_document(files, arg.path, {}), TypesOf(FailedCheck))
           /\ \E k \in 1..Len(ret) :
                  ret[k].type = ErrorTypeOf(FailedCheck) /\ ret[k].severity = "error"

\* the typography check raised after its first paragraph; checks before and
\* after it reported violations
C8_Witness ==
    /\ OneCheckFailed
    /\ arg.faults = {<<"typography", 1>>}
    /\ \E k \in 1..Len(ret) : ret[k].type = "margin_error"
    /\ \E k \in 1..Len(ret) : ret[k].type = "decimal_separator"
    /\ \E k \in 1..Len(ret) : ret[k].type = "document_reordering"

\* the group in which the one injected exception of the call is raised
FailedGroup ==
    LET f == CHOOSE f \in arg.faults : TRUE
    IN  IF f[1] = "restructurer" THEN "document_restructure" ELSE f[1]

\* a correction of a loaded document in which one group failed: an in-place
\* group raised, or restructure_document returned without success
OneGroupFailed ==
    /\ call = "correct"
    /\ arg.faults # {}
    /\ \/ FailedGroup \in InPlaceGroupNames
       \/ /\ FailedGroup = "document_restructure"
          /\ ~restructure_document(StoreBefore, arg.path,
                                   RestructurerFaults(arg.faults)).ret.success

\* the entries of list entries that group reported, in order
RECURSIVE OfGroup(_, _)
OfGroup(entries, group) ==
    IF entries = <<>> THEN <<>>
    ELSE (IF Head(entries).group = group THEN <<Head(entries)>> ELSE <<>>)
             \o OfGroup(Tail(entries), group)

C10_CountsSumToLength ==
    call = "summary"
        => /\ ret.error + ret.warning + ret.suggestion = Len(arg)
           /\ ret.error = Cardinality({k \in 1..Len(arg) :
                                          arg[k].severity \notin {"warning", "suggestion"}})
           /\ arg = <<>> => ret = [error |-> 0, warning |-> 0, suggestion |-> 0]

(***************************************************************************)
(* The analysis and the preview of the restructurer: one document is       *)
(* uploaded, then analysed or previewed.                                   *)
(***************************************************************************)
\* the entries of current_order (as_found) or corrected_order of the preview
RECURSIVE PreviewOrder(_, _)
PreviewOrder(chapters, as_found) ==
    IF chapters = <<>> THEN <<>>
    ELSE <<[roman |-> IF as_found THEN Head(chapters).roman_numeral
                      ELSE _int_to_roman(Head(chapters).chapter_number),
            title |-> Head(chapters).title,
            number |-> Head(chapters).chapter_number]>>
         \o PreviewOrder(Tail(chapters), as_found)

NoPreview ==
    [preview_available |-> FALSE, current_order |-> <<>>, corrected_order |-> <<>>,
     changes_needed |-> 0, structure_issues |-> <<>>]

\* a preview whose corrected_order is built from the chapters as found
PreviewOfAsFound(analysis) ==
    IF ~analysis.reordering_needed THEN NoPreview
    ELSE [preview_available |-> TRUE,
          current_order |-> PreviewOrder(analysis.chapters, TRUE),
          corrected_order |-> PreviewOrder(analysis.chapters, FALSE),
          changes_needed |-> Len(analysis.chapters),
          structure_issues |-> analysis.structure_issues]

\* get_restructuring_preview once the analysis returned
PreviewOf(analysis) ==
    IF ~analysis.reordering_needed THEN NoPreview
    ELSE [preview_available |-> TRUE,
          current_order |-> PreviewOrder(analysis.chapters, TRUE),
          corrected_order |-> PreviewOrder(SortedChapters(analysis.chapters), FALSE),
          changes_needed |-> Len(analysis.chapters),
          structure_issues |-> analysis.structure_issues]

\* get_restructuring_preview: the dictionary returned; a document that cannot
\* be opened ends the analysis in its except branch
get_restructuring_preview(fs, document_path, faults) ==
    IF ~Exists(fs, document_path) \/ "load" \in faults
    THEN PreviewOf(AnalysisError)
    ELSE PreviewOf(analyze_document_structure(Loaded(fs[document_path]),
                                              "analysis" \in faults))

Analyze ==
    /\ call = "init"
    /\ \E p \in DOMAIN files, faults \in FaultSets({"analysis"}) :
          /\ call' = "analyze"
          /\ arg' = [path |-> p, faults |-> faults, doc |-> files[p]]
          /\ ret' = analyze_document_structure(Loaded(files[p]), "analysis" \in faults)
          /\ UNCHANGED <<files, written>>

Preview ==
    /\ call = "init"
    /\ \E p \in DOMAIN files, faults \in FaultSets({"load", "analysis"}) :
          /\ call' = "preview"
          /\ arg' = [path |-> p, faults |-> faults, doc |-> files[p]]
          /\ ret' = get_restructuring_preview(files, p, faults)
          /\ UNCHANGED <<files, written>>

NextA == Analyze \/ Preview

SpecA == InitR /\ [][NextA]_vars

\* the document was analysed and the analysis did not raise
Analysed == call = "analyze" /\ arg.faults = {}

\* the chapter_order issues among the structure issues of the analysis
ChapterOrderIssues ==
    {k \in 1..Len(ret.structure_issues) : ret.structure_issues[k].type = "chapter_order"}

\* C11: reordering_needed is true exactly when the chapter numbers, in source
\* order, are not ascending; exactly then there is one chapter_order issue, of
\* severity error and auto-correctable; with at most one chapter it is false
C11_ReorderingIffNotAscending ==
    Analysed
        => /\ ret.reordering_needed <=> ~Ascending(NumbersOf(ret.chapters))
           /\ Cardinality(ChapterOrderIssues) = (IF ret.reordering_needed THEN 1 ELSE 0)
           /\ \A k \in ChapterOrderIssues :
                  /\ ret.structure_issues[k].severity = "error"
                  /\ ret.structure_issues[k].auto_correctable = "True"
           /\ Len(ret.chapters) <= 1 => ~ret.reordering_needed

\* chapters 1, 3, 2: the first number is below the last one, yet the order is
\* not ascending
C11_Witness ==
    /\ Analysed
    /\ NumbersOf(ret.chapters) = <<1, 3, 2>>
    /\ ret.reordering_needed

\* the title of a required section, read as a chapter heading
RequiredTitle(required) == ChapterMatch(required).title

\* no detected chapter of the validated document has a title containing the
\* title of the required section
LacksChapter(required) ==
    \A k \in 1..Len(DetectedChapters(arg.doc)) :
        ~Contains(DetectedChapters(arg.doc)[k].title, RequiredTitle(required))

ValidatedClean == call = "validate" /\ arg.faults = {}

\* C12: for every required section no detected chapter title contains,
\* validate_document returns a missing_chapter violation of severity error,
\* not auto-correctable, naming that section, whatever the chapter order
C12_MissingChapterReported ==
    ValidatedClean
        => \A i \in 1..Len(Config.required_sections) :
               LacksChapter(Config.required_sections[i])
                   => \E k \in 1..Len(ret) :
                          /\ ret[k].type = "missing_chapter"
                          /\ ret[k].severity = "error"
                          /\ ret[k].auto_correctable = "False"
                          /\ ret[k].about = Config.required_sections[i]

\* chapters III then I: out of order, and BAB II is absent
C12_Witness ==
    /\ ValidatedClean
    /\ NumbersOf(DetectedChapters(arg.doc)) = <<3, 1>>
    /\ LacksChapter(Config.required_sections[2])
    /\ \E k \in 1..Len(ret) : ret[k].type = "document_reordering"

(***************************************************************************)
(* The numeral conversions of the restructurer, applied to an integer or   *)
(* to a string over I, V, X, and then to the result of the other one.      *)
(***************************************************************************)
\* the largest integer converted
MaxNumber == 39

\* the longest string converted
MaxNumeralLen == 7

NumeralStrings == UNION {[1..n -> RomanLetters] : n \in 1..MaxNumeralLen}

InitN ==
    /\ files = <<>>
    /\ call = "init"
    /\ \/ \E n \in 1..MaxNumber : arg = [kind |-> "int", n |-> n, r |-> <<>>]
       \/ \E r \in NumeralStrings : arg = [kind |-> "roman", n |-> 0, r |-> r]
    /\ ret = None
    /\ written = {}

IntToRoman ==
    /\ call = "init" /\ arg.kind = "int"
    /\ call' = "int_to_roman"
    /\ ret' = _int_to_roman(arg.n)
    /\ UNCHANGED <<files, arg, written>>

RomanToInt ==
    /\ call = "init" /\ arg.kind = "roman"
    /\ call' = "roman_to_int"
    /\ ret' = _roman_to_int(arg.r)
    /\ UNCHANGED <<files, arg, written>>

BackToInt ==
    /\ call = "int_to_roman"
    /\ call' = "int_roman_int"
    /\ ret' = _roman_to_int(ret)
    /\ UNCHANGED <<files, arg, written>>

BackToRoman ==
    /\ call = "roman_to_int"
    /\ call' = "roman_int_roman"
    /\ ret' = _int_to_roman(ret)
    /\ UNCHANGED <<files, arg, written>>

NextN == IntToRoman \/ RomanToInt \/ BackToInt \/ BackToRoman

SpecN == InitN /\ [][NextN]_vars

\* the standard numerals of 1..39: up to three X, then the standard units
StandardUnits ==
    {<<>>, <<"I">>, <<"I", "I">>, <<"I", "I", "I">>, <<"I", "V">>, <<"V">>,
     <<"V", "I">>, <<"V", "I", "I">>, <<"V", "I", "I", "I">>, <<"I", "X">>}

StandardNumerals ==
    {Repeat(<<"X">>, t) \o u : t \in 0..3, u \in StandardUnits} \ {<<>>}

\* C13: an integer of the range converted to a numeral and back is itself, and
\* a standard numeral converted to an integer and back is itself
C13_NumeralRoundTrips ==
    /\ call = "int_roman_int" => ret = arg.n
    /\ (call = "roman_int_roman" /\ arg.r \in StandardNumerals) => ret = arg.r

\* XXXIX went to 39 and back
C13_Witness ==
    /\ call = "roman_int_roman"
    /\ arg.r = <<"X", "X", "X", "I", "X">>
    /\ ret = arg.r

\* the margin_error violations of list vs for side of the section numbered i
MarginErrors(vs, i, side) ==
    {k \in 1..Len(vs) : /\ vs[k].type = "margin_error"
                        /\ vs[k].location = <<"Section", i>>
                        /\ vs[k].correction.margin = side}

\* C14: for every section and side there is exactly one margin_error (severity
\* error, auto-correctable, correction of type margin for that side with the
\* target as value) when the margin is more than 0.2 cm from the target, and
\* none when it is at most 0.2 cm from it
C14_OneErrorPerMarginOutOfTolerance ==
    ValidatedClean
        => \A i \in 1..Len(arg.doc.sections), side \in {"top", "bottom", "left", "right"} :
               /\ Cardinality(MarginErrors(ret, i, side))
                     = (IF Abs(arg.doc.sections[i][side] - Config.margins[side])
                              > MarginTolerance
                        THEN 1 ELSE 0)
               /\ \A k \in MarginErrors(ret, i, side) :
                      /\ ret[k].severity = "error"
                      /\ ret[k].auto_correctable = "True"
                      /\ ret[k].correction = Correction("margin", side, Config.margins[side])

(***************************************************************************)
(* The decimal_separator group on a document of one paragraph whose text   *)
(* is any short string of digits, dots, letters and spaces.                *)
(***************************************************************************)
\* the longest paragraph text corrected
MaxTextLen == 6

TextAlphabet == {"1", ".", "a", " "}

Texts == UNION {[1..n -> TextAlphabet] : n \in 0..MaxTextLen}

InitD ==
    /\ files = <<>>
    /\ call = "init"
    /\ arg \in Texts
    /\ ret = None
    /\ written = {}

CorrectDecimals ==
    /\ call = "init"
    /\ \E out \in {_apply_decimal_separator_corrections(
                       [paras |-> <<Plain(arg)>>, sections |-> <<GoodMargins>>,
                        tables |-> 0], NoFault)} :
          /\ call' = "decimal_separator"
          /\ ret' = [text |-> ParaText(out.doc.paras[1]), applied |-> out.applied]
    /\ UNCHANGED <<files, arg, written>>

NextD == CorrectDecimals

SpecD == InitD /\ [][NextD]_vars

IsDigit(text, i) == i \in 1..Len(text) /\ text[i] \in Digits

IsWordChar(text, i) == i \in 1..Len(text) /\ text[i] \in WordChars

IsDot(text, i) == i \in 1..Len(text) /\ text[i] = "."

\* the index of the first digit of the run of digits that ends at index i
RECURSIVE RunStart(_, _)
RunStart(text, i) == IF IsDigit(text, i - 1) THEN RunStart(text, i - 1) ELSE i

\* the index of the last digit of the run of digits that starts at index i
RECURSIVE RunEnd(_, _)
RunEnd(text, i) == IF IsDigit(text, i + 1) THEN RunEnd(text, i + 1) ELSE i

\* the dot at index i is the one dot of a number standing on its own: digits
\* on both sides, no letter and no dot before the integer part, and after the
\* fractional part no letter and no dot followed by a digit
DotOfNumber(text, i) ==
    /\ IsDot(text, i) /\ IsDigit(text, i - 1) /\ IsDigit(text, i + 1)
    /\ ~IsWordChar(text, RunStart(text, i - 1) - 1)
    /\ ~IsDot(text, RunStart(text, i - 1) - 1)
    /\ ~IsWordChar(text, RunEnd(text, i + 1) + 1)
    /\ ~(IsDot(text, RunEnd(text, i + 1) + 1) /\ IsDigit(text, RunEnd(text, i + 1) + 2))

FractionLen(text, i) == RunEnd(text, i + 1) - i

\* C15: the correction turns the dot of every number with a fractional part of
\* 1 to 3 digits into a comma, leaves the dot of every number with a longer
\* fractional part, and changes nothing but dots into commas
C15_DecimalDotsBecomeCommas ==
    call = "decimal_separator"
        => /\ Len(ret.text) = Len(arg)
           /\ \A i \in 1..Len(arg) :
                  /\ ret.text[i] = arg[i] \/ (arg[i] = "." /\ ret.text[i] = ",")
                  /\ DotOfNumber(arg, i)
                        => ret.text[i] = (IF FractionLen(arg, i) <= 3 THEN "," ELSE ".")

\* "a 1.11" became "a 1,11"
C15_Witness ==
    /\ call = "decimal_separator"
    /\ arg = <<"a", " ", "1", ".", "1", "1">>
    /\ ret.text = <<"a", " ", "1", ",", "1", "1">>
    /\ ret.applied # <<>>

\* the dots at i and j enclose a group of digits and stand between digits
DotsOfVersion(text, i, j) ==
    /\ i < j /\ IsDot(text, i) /\ IsDot(text, j)
    /\ IsDigit(text, i - 1) /\ IsDigit(text, j + 1)
    /\ j > i + 1 /\ \A k \in (i + 1)..(j - 1) : IsDigit(text, k)

\* C16: the dots of a dotted string with two or more dots between groups of
\* digits are left as they are
C16_VersionNumbersUntouched ==
    call = "decimal_separator"
        => \A i, j \in 1..Len(arg) :
               DotsOfVersion(arg, i, j) => ret.text[i] = "." /\ ret.text[j] = "."

\* the call ran the group on its working document and saved that document
GroupAppliedInPlace(group) ==
    /\ CorrectedClean
    /\ Requested(arg.corrections, group)
    /\ ~Requested(arg.corrections, "document_restructure")
    /\ ret.corrected_file_path # NoPath

\* C17: after the font (font_size) group every run of every paragraph of the
\* saved working document has the configured family (size)
C17_EveryRunHasTarget ==
    /\ GroupAppliedInPlace("font")
        => \A i \in 1..Len(CorrectedArtifact.paras) :
               \A k \in 1..Len(CorrectedArtifact.paras[i].runs) :
                   CorrectedArtifact.paras[i].runs[k].name = Config.family
    /\ GroupAppliedInPlace("font_size")
        => \A i \in 1..Len(CorrectedArtifact.paras) :
               \A k \in 1..Len(CorrectedArtifact.paras[i].runs) :
                   CorrectedArtifact.paras[i].runs[k].size = Config.size

(***************************************************************************)
(* The restructuring of an uploaded document while a step of the loop over *)
(* the chapters may raise.                                                 *)
(***************************************************************************)
EmissionSteps == {"heading", "copy"}

RestructureEmitting ==
    /\ call = "init"
    /\ \E p \in DOMAIN files, faults \in FaultSets(EmissionSteps) :
          \E r \in {restructure_document(files, p, faults)} :
              /\ call' = "restructure"
              /\ arg' = [path |-> p, faults |-> faults, doc |-> files[p]]
              /\ ret' = r.ret
              /\ files' = r.files
              /\ written' = r.written

NextE == RestructureEmitting

SpecE == InitR /\ [][NextE]_vars

\* the artifact of the same call when no step raises
CleanArtifact ==
    LET r == restructure_document([q \in {arg.path} |-> arg.doc], arg.path, {})
    IN  r.files[r.ret.restructured_file_path]

\* the call reached the loop over the chapters and a step of the loop raised
EmissionFailed ==
    /\ call = "restructure"
    /\ arg.faults \cap {"heading", "copy"} # {}
    /\ ~Ascending(NumbersOf(DetectedChapters(arg.doc)))

\* C18: a successful call that wrote an artifact emitted every chapter's
\* heading and content into it, and a call in which creating a heading or
\* copying a chapter's content raised returns success = false, no path, and
\* writes nothing
C18_SuccessOnlyWhenAllEmitted ==
    /\ (WroteArtifact /\ ret.success) => Artifact = CleanArtifact
    /\ EmissionFailed
          => /\ ~ret.success
             /\ ret.restructured_file_path = NoPath
             /\ written = {}

\* C19: a call whose structure analysis raised returns success = false, no
\* path, and writes nothing; the "already correct" result is returned only
\* when the analysis ran and the detected chapter numbers are ascending
C19_AnalysisFailureIsReported ==
    call = "restructure"
        => /\ "analysis" \in arg.faults
                => /\ ~ret.success
                   /\ ret.restructured_file_path = NoPath
                   /\ written = {}
           /\ ret = RestructureNotNeeded
                => /\ "analysis" \notin arg.faults
                   /\ Ascending(NumbersOf(DetectedChapters(arg.doc)))

\* the titles of the entries of a preview order
PreviewTitles(order) == [k \in 1..Len(order) |-> order[k].title]

PreviewNumbers(order) == [k \in 1..Len(order) |-> order[k].number]

\* C20: get_restructuring_preview leaves the store as it was and writes no
\* file, and the corrected_order of an available preview names the chapters
\* that restructure_document returns as corrected_order for the same
\* document, in the same order
C20_PreviewMatchesRestructuring ==
    call = "preview"
        => /\ files = [q \in {arg.path} |-> arg.doc]
           /\ written = {}
           /\ ret.preview_available
                => PreviewTitles(ret.corrected_order)
                       = restructure_document(files, arg.path, {}).ret.corrected_order

C20_Witness ==
    /\ call = "preview"
    /\ ret.preview_available
    /\ PreviewNumbers(ret.current_order) = <<3, 1, 2>>
    /\ PreviewNumbers(ret.corrected_order) = <<1, 2, 3>>
    /\ restructure_document(files, arg.path, {}).ret.corrected_order
           = PreviewTitles(ret.corrected_order)

(***************************************************************************)
(* Manuscripts: documents as authors type them, with text before the first *)
(* chapter heading and with headings whose title stands in the next        *)
(* paragraph.  A manuscript is uploaded, then analysed or restructured.    *)
(***************************************************************************)
\* the longest manuscript
MaxManuscriptParas == 4

\* "BAB I": a heading line without a title
BareHeading == Para(<<Run(T_BAB \o <<" ", "I">>, "Times New Roman", 12, "True", None)>>,
                    "CENTER", 20)

ManuscriptPool ==
    {Plain(T_ta), Plain(<<"1", ".", "1", " ", "a">>), BareHeading,
     Heading(<<"I">>, T_P), Heading(<<"I", "I">>, T_K)}

Manuscripts ==
    {[paras |-> ps, sections |-> <<GoodMargins>>, tables |-> 0] :
        ps \in UNION {[1..n -> ManuscriptPool] : n \in 0..MaxManuscriptParas}}

InitM ==
    /\ \E d \in Manuscripts : files = [q \in {MainPath} |-> d]
    /\ call = "init"
    /\ arg = None
    /\ ret = None
    /\ written = {}

AnalyzeManuscript ==
    /\ call = "init"
    /\ \E p \in DOMAIN files :
          /\ call' = "analyze"
          /\ arg' = [path |-> p, faults |-> {}, doc |-> files[p]]
          /\ ret' = analyze_document_structure(Loaded(files[p]), FALSE)
          /\ UNCHANGED <<files, written>>

RestructureManuscript ==
    /\ call = "init"
    /\ \E p \in DOMAIN files :
          \E r \in {restructure_document(files, p, {})} :
              /\ call' = "restructure"
              /\ arg' = [path |-> p, faults |-> {}, doc |-> files[p]]
              /\ ret' = r.ret
              /\ files' = r.files
              /\ written' = r.written

NextM == AnalyzeManuscript \/ RestructureManuscript

SpecM == InitM /\ [][NextM]_vars

\* paragraph i (1-based) of doc is one of the detected chapter headings
IsDetectedHeading(doc, i) ==
    \E k \in 1..Len(DetectedChapters(doc)) :
        DetectedChapters(doc)[k].paragraph_index = i - 1

\* C21: every non-empty paragraph of the source that is not a chapter heading
\* has a copy in the written artifact
C21_NoContentLost ==
    WroteArtifact =>
        \A i \in 1..Len(arg.doc.paras) :
            (NonEmpty(arg.doc.paras[i]) /\ ~IsDetectedHeading(arg.doc, i))
                => \E j \in 1..Len(Artifact.paras) : Artifact.paras[j].src = i

(***************************************************************************)
(* The three operations on an uploaded draft while the load of the         *)
(* document or the save of the artifact raises.                            *)
(***************************************************************************)
FatalSteps == {"load", "save"}

InitL ==
    /\ \E d \in CorrectedDrafts : files = [q \in {MainPath} |-> d]
    /\ call = "init"
    /\ arg = None
    /\ ret = None
    /\ written = {}

ValidateUnloadable ==
    /\ call = "init"
    /\ \E p \in DOMAIN files :
          /\ call' = "validate"
          /\ arg' = [path |-> p, faults |-> {"load"}, doc |-> files[p],
                     corrections |-> <<>>]
          /\ ret' = validate_document(files, p, {<<"load", 0>>})
          /\ UNCHANGED <<files, written>>

CorrectFailing ==
    /\ call = "init"
    /\ \E p \in DOMAIN files, step \in FatalSteps,
          corrections \in {c \in RequestLists : Len(c) <= 1} :
          \E r \in {apply_corrections(files, p, corrections, {<<step, 0>>})} :
              /\ call' = "correct"
              /\ arg' = [path |-> p, faults |-> {step}, doc |-> files[p],
                         corrections |-> corrections]
              /\ ret' = r.ret
              /\ files' = r.files
              /\ written' = r.written

RestructureFailing ==
    /\ call = "init"
    /\ \E p \in DOMAIN files, step \in FatalSteps :
          \E r \in {restructure_document(files, p, {step})} :
              /\ call' = "restructure"
              /\ arg' = [path |-> p, faults |-> {step}, doc |-> files[p],
                         corrections |-> <<>>]
              /\ ret' = r.ret
              /\ files' = r.files
              /\ written' = r.written

NextL == ValidateUnloadable \/ CorrectFailing \/ RestructureFailing

SpecL == InitL /\ [][NextL]_vars

\* C22: when the load raises, validate_document returns one system_error of
\* severity error and apply_corrections returns no path and a system_error in
\* failed; when the save of the artifact raises, apply_corrections returns no
\* path and a failure in failed, and restructure_document returns
\* success = false and no path
C22_FatalFailuresSurface ==
    /\ (call = "validate" /\ "load" \in arg.faults)
          => /\ Len(ret) = 1
             /\ ret[1].type = "system_error"
             /\ ret[1].severity = "error"
    /\ (call = "correct" /\ "load" \in arg.faults)
          => /\ ret.corrected_file_path = NoPath
             /\ \E k \in 1..Len(ret.failed) : ret.failed[k] = Failed("system_error")
    /\ (call = "correct" /\ "save" \in arg.faults)
          => /\ ret.corrected_file_path = NoPath
             /\ ret.failed # <<>>
    /\ (call = "restructure" /\ "save" \in arg.faults
            /\ ~Ascending(NumbersOf(DetectedChapters(arg.doc))))
          => /\ ~ret.success
             /\ ret.restructured_file_path = NoPath

\* the save of the corrected artifact raised after the restructuring had
\* written its own artifact
C22_Witness ==
    /\ call = "correct"
    /\ arg.faults = {"save"}
    /\ Requested(arg.corrections, "document_restructure")
    /\ written # {}
    /\ ret.corrected_file_path = NoPath
    /\ ret.failed = <<Failed("system_error")>>

\* C23: every subsection the analysis records lies after the heading of the
\* chapter it is attached to and before the heading of the next chapter
C23_SubsectionsUnderTheirChapter ==
    call = "analyze"
        => \A i \in 1..Len(ret.chapters) :
               \A k \in 1..Len(ret.chapters[i].subsections) :
                   /\ ret.chapters[i].paragraph_index
                          < ret.chapters[i].subsections[k].paragraph_index
                   /\ i < Len(ret.chapters)
                          => ret.chapters[i].subsections[k].paragraph_index
                                 < ret.chapters[i + 1].paragraph_index

(***************************************************************************)
(* The check for required chapters of analyze_document_structure, on rule  *)
(* sets of required sections of chapters I to IV and lists of detected     *)
(* chapter titles.                                                         *)
(***************************************************************************)
\* the most required sections of a rule set
MaxRequired == 2

\* the most detected chapters
MaxTitles == 2

T_H == <<"H">>

RequiredPool ==
    {Txt_BAB_I \o T_P, Txt_BAB_II \o T_K, Txt_BAB_III \o T_M,
     <<"B", "A", "B", " ", "I", "V", " ">> \o T_H}

TitlePool == {T_P, T_K, T_M, T_H}

InitQ ==
    /\ files = <<>>
    /\ call = "init"
    /\ \E required \in UNION {[1..n -> RequiredPool] : n \in 0..MaxRequired},
          titles \in UNION {[1..n -> TitlePool] : n \in 0..MaxTitles} :
          arg = [required |-> required, titles |-> titles]
    /\ ret = None
    /\ written = {}

CheckRequired ==
    /\ call = "init"
    /\ call' = "missing_sections"
    /\ ret' = MissingSections(arg.required, arg.titles)
    /\ UNCHANGED <<files, arg, written>>

NextQ == CheckRequired

SpecQ == InitQ /\ [][NextQ]_vars

\* a required title without its leading "BAB <numeral> "
WithoutChapterPrefix(required) ==
    LET n == RunLen(Drop(required, 4), RomanLetters)
    IN  IF StartsWith(required, T_BAB_SPACE) /\ n >= 1
           /\ StartsWith(Drop(required, 4 + n), <<" ">>)
        THEN Drop(required, 4 + n + 1)
        ELSE required

\* C24: a required section is recorded as a missing chapter exactly when its
\* title without the "BAB <numeral> " prefix is in no detected chapter title
C24_MissingIffTitleAbsent ==
    call = "missing_sections"
        => \A k \in 1..Len(arg.required) :
               (\E m \in 1..Len(ret) :
                    ret[m].type = "missing_chapter" /\ ret[m].about = arg.required[k])
               <=> ~\E t \in 1..Len(arg.titles) :
                       Contains(arg.titles[t], WithoutChapterPrefix(arg.required[k]))

\* paragraph j of the artifact is a copy of a source paragraph whose text the
\* renumbering left as it was
CopiedUnchanged(j) ==
    /\ Artifact.paras[j].src # 0
    /\ ParaText(Artifact.paras[j]) = ParaText(arg.doc.paras[Artifact.paras[j].src])

\* C25: every run of a paragraph copied without renumbering has the family,
\* size, bold and italic of its source run, and the copy has the alignment of
\* its source paragraph
C25_CopyKeepsRunFormatting ==
    (WroteArtifact /\ RestructureRanClean) =>
        \A j \in 1..Len(Artifact.paras) :
            CopiedUnchanged(j) =>
                LET copy == Artifact.paras[j]
                    source == arg.doc.paras[copy.src]
                IN  /\ Len(copy.runs) = Len(source.runs)
                    /\ \A k \in 1..Len(copy.runs) :
                           /\ copy.runs[k].name = source.runs[k].name
                           /\ copy.runs[k].size = source.runs[k].size
                           /\ copy.runs[k].bold = source.runs[k].bold
                           /\ copy.runs[k].italic = source.runs[k].italic
                    /\ copy.alignment = source.alignment

\* C26: every violation validate_document returns has one of the severities
\* error, warning, suggestion
C26_EveryViolationHasSeverity ==
    call = "validate"
        => \A k \in 1..Len(ret) : ret[k].severity \in {"error", "warning", "suggestion"}

\* restructure_document on the artifact the call has written
SecondRestructuring == restructure_document(files, ret.restructured_file_path, {})

\* C27: the analysis of a written artifact needs no reordering, and
\* restructuring the artifact returns the "already correct" result, writes
\* nothing and leaves the store as it is
C27_RestructuringIsIdempotent ==
    WroteArtifact
        => /\ ~analyze_document_structure(Loaded(Artifact), FALSE).reordering_needed
           /\ SecondRestructuring.ret = RestructureNotNeeded
           /\ SecondRestructuring.written = {}
           /\ SecondRestructuring.files = files

\* the artifact of a document of three chapters was restructured again
C27_Witness ==
    /\ call = "restructure"
    /\ arg.faults = {}
    /\ DOMAIN files = {MainPath, arg.path}
    /\ arg.path = _save_restructured_document(MainPath)
    /\ NumbersOf(DetectedChapters(files[MainPath])) = <<3, 1, 2>>
    /\ arg.doc = restructure_document([q \in {MainPath} |-> files[MainPath]],
                                      MainPath, {}).files[arg.path]
    /\ ret = RestructureNotNeeded
    /\ written = {}

\* C28: _fix_decimal_separators applied to its own result changes nothing
C28_FixDecimalsIsIdempotent ==
    call = "decimal_separator"
        => _fix_decimal_separators(ret.text) = ret.text

\* the chapters and subsections the analysis finds in a stored document:
\* paragraph index and number of each
Outline(doc) ==
    LET chapters == analyze_document_structure(Loaded(doc), FALSE).chapters
    IN  [i \in 1..Len(chapters) |->
            [paragraph_index |-> chapters[i].paragraph_index,
             chapter_number |-> chapters[i].chapter_number,
             subsections |->
                 [k \in 1..Len(chapters[i].subsections) |->
                     [paragraph_index |-> chapters[i].subsections[k].paragraph_index,
                      number |-> chapters[i].subsections[k].number]]]]

\* C29: after a call that applied only the decimal_separator group, the
\* analysis finds in the saved document the chapters and subsections it
\* finds in the input
C29_DecimalsKeepStructure ==
    (GroupAppliedInPlace("decimal_separator") /\ Len(arg.corrections) = 1)
        => Outline(CorrectedArtifact) = Outline(arg.doc)

(***************************************************************************)
(* apply_all_auto_corrections (corrector.py): validate, collect the         *)
(* corrections of the auto-correctable violations, apply them.             *)
(***************************************************************************)
\* get_auto_correctable_violations
RECURSIVE get_auto_correctable_violations(_)
get_auto_correctable_violations(violations) ==
    IF violations = <<>> THEN <<>>
    ELSE (IF Head(violations).auto_correctable = "True" THEN <<Head(violations)>> ELSE <<>>)
             \o get_auto_correctable_violations(Tail(violations))

\* the corrections of the violations that carry one
RECURSIVE CorrectionsOf(_)
CorrectionsOf(violations) ==
    IF violations = <<>> THEN <<>>
    ELSE (IF Head(violations).correction # NoCorrection
          THEN <<Head(violations).correction>> ELSE <<>>)
             \o CorrectionsOf(Tail(violations))

\* apply_all_auto_corrections once the auto-correctable violations are known
AutoCorrectionsOf(fs, document_path, auto_correctable) ==
    IF auto_correctable # <<>>
    THEN apply_corrections(fs, document_path, CorrectionsOf(auto_correctable), {})
    ELSE [ret |-> [applied |-> <<>>, failed |-> <<>>, corrected_file_path |-> NoPath],
          files |-> fs, written |-> {}]

apply_all_auto_corrections(fs, document_path) ==
    AutoCorrectionsOf(fs, document_path,
        get_auto_correctable_violations(validate_document(fs, document_path, {})))

InitT ==
    /\ \E d \in Drafts, p \in UploadPaths : files = [q \in {p} |-> d]
    /\ call = "init"
    /\ arg = None
    /\ ret = None
    /\ written = {}

AutoCorrect ==
    /\ call = "init"
    /\ \E p \in DOMAIN files :
          \E r \in {apply_all_auto_corrections(files, p)} :
              /\ call' = "auto_correct"
              /\ arg' = [path |-> p, faults |-> {}, doc |-> files[p]]
              /\ ret' = r.ret
              /\ files' = r.files
              /\ written' = r.written

NextT == AutoCorrect

SpecT == InitT /\ [][NextT]_vars

\* C30: when apply_all_auto_corrections returns an artifact and an empty
\* failed list, the validation of the artifact returns no violation with
\* auto_correctable true
C30_AutoCorrectionReachesFixedPoint ==
    (call = "auto_correct" /\ ret.corrected_file_path # NoPath /\ ret.failed = <<>>)
        => get_auto_correctable_violations(
               validate_document(files, ret.corrected_file_path, {})) = <<>>

=============================================================================
